---- MODULE Spec2Model ----
(***************************************************************************)
(* FB-Bus connector of the FastyBird miniserver gateway: the device        *)
(* registry, the checking / reading / writing handlers, the pairing        *)
(* helper and the connector loop, as a state machine.                      *)
(*                                                                         *)
(* Time is counted in tenths of a second, so every delay of the source is  *)
(* an integer (0.5 s = 5, 6 s = 60, 15 s = 150).  time.time() is `now`.    *)
(* A timestamp of 0 is the source's 0.0, "never".                          *)
(***************************************************************************)
EXTENDS Integers, Sequences, FiniteSets, TLC

\* ------------------------------------------------------------------ bounds
\* PING_DELAYs the clock runs for while pairing stays off
MaxCheckTime == 1
\* SEARCHING_DELAYs the clock runs for while searching
MaxSearchTime == 4
\* registers of one type, settings of one type
MaxRegisters == 1
\* a device's attempt counter up to which publish() is called
MaxAttempts == 5

\* ------------------------------------------------------- program constants
MAX_ADDRESS == 253
ADDRESS_NOT_ASSIGNED == 255
MAX_TRANSMIT_ATTEMPTS == 5
PING_DELAY == 150
READING_DELAY == 5
MAX_SEARCHING_ATTEMPTS == 5
SEARCHING_DELAY == 60
SAMPLING_TIME == 100

PJON_PACKET_MAX_LENGTH == 50

None == "none"

\* time.time() at the start of the run: an epoch time, later than any delay
StartTime == PING_DELAY + SAMPLING_TIME

RegistersTypes == {"DI", "DO", "AI", "AO"}
\* the types whose registers hold one bit; RegisterEntity.__value of such a
\* register is None, True or False, of the register at address a the entry
\* a + 1 of the device's values (those of analog registers are not kept)
DigitalTypes == {"DI", "DO"}
True == "True"
False == "False"
\* the 16 bits that stand for True in a frame
ON == 65280
SettingsTypes == {"DEVICE", "REGISTER"}

\* a reading cursor (address, type) that is (None, None)
NoCursor == [address |-> 0, type |-> None]

\* --------------------------------------------------------------- entities
\* DeviceEntity: the fields of a freshly constructed device
NewDevice(serial_number, address) ==
    [ serial_number |-> serial_number,
      address |-> address,
      state |-> "unknown",
      max_packet_length |-> PJON_PACKET_MAX_LENGTH,
      description_support |-> FALSE,
      settings_support |-> FALSE,
      waiting_for_packet |-> None,
      last_packet_sent_timestamp |-> 0,
      attempts |-> 0,
      reading_registers_timestamp |-> 0,
      reading_register |-> NoCursor,
      lost_timestamp |-> 0,
      pairing_cmd |-> None,
      reading_setting |-> NoCursor,
      registers |-> [rt \in RegistersTypes |-> 0],
      values |-> [rt \in DigitalTypes |-> <<>>],
      settings |-> [k \in SettingsTypes |-> 0] ]

\* DeviceEntity.reset_communication
reset_communication(dv) ==
    [dv EXCEPT !.waiting_for_packet = None, !.attempts = 0]

\* DeviceEntity.set_state at time t
set_state(dv, st, t) ==
    IF st = "lost"
    THEN [reset_communication([dv EXCEPT !.state = st, !.lost_timestamp = t])
              EXCEPT !.last_packet_sent_timestamp = 0]
    ELSE IF st = "ready"
    THEN [dv EXCEPT !.state = st, !.reading_registers_timestamp = 0]
    ELSE [dv EXCEPT !.state = st]

\* set_alive that keeps the lost-since time
set_alive_keeps_lost(dv, t) ==
    reset_communication(set_state(dv, "unknown", t))

\* DeviceEntity.set_alive at time t
set_alive(dv, t) ==
    [reset_communication(set_state(dv, "unknown", t)) EXCEPT !.lost_timestamp = 0]

\* transform_state_for_gateway that takes the STOPPED byte for RUNNING
transform_state_stopped_as_running(received_state) ==
    IF received_state \in {1, 2} THEN "running" ELSE "unknown"

\* Helpers.transform_state_for_gateway: the state byte of a frame
transform_state_for_gateway(received_state) ==
    IF received_state = 1 THEN "running"
    ELSE IF received_state = 2 THEN "stopped"
    ELSE "unknown"

\* ---------------------------------------------------------------- registry
\* The connector with its pairing helper is a record c:
\*   devices                          FbBusConnector.__devices, in insertion
\*                                    order; a device's id is its index
\*   pairing_device                   PairingHelper.__pairing_device (0: None)
\*   pairing_enabled, attempts, last_pairing_request_broadcast
\*                                    the other fields of PairingHelper
\*   raised                           an exception left the handler
\* and the observations of one step:
\*   sent                             the frames handed to the transport
\*   up                               the calls made on the gateway container
\*   handled                          the frames a receiver acted on
\*   hist                             per device: unanswered (requests sent
\*                                    since the last matching reply, up to
\*                                    MAX_TRANSMIT_ATTEMPTS), last_frame (the
\*                                    time of the last frame sent to it),
\*                                    asked (the reply that answers it),
\*                                    cycle (the READ_MULTIPLE_REGISTERS
\*                                    requests sent since the reading cursor
\*                                    was last (None, None))

\* what a step records of a frame that a receiver acted on: the receiver, the
\* device it resolved the frame to, the address and the state byte the frame
\* carries, the state the device was in (None: it was created for the
\* frame), and whether the device was the one latched for pairing
Handled(receiver, i, f, before, latched) ==
    [receiver |-> receiver, device |-> i, address |-> f.address, byte |-> f.byte,
     before |-> before, latched |-> latched]

\* FbBusConnector.get_device_by_address: the first device in dictionary order
get_device_by_address(c, address) ==
    LET hits == {i \in 1..Len(c.devices) : c.devices[i].address = address}
    IN  IF hits = {} THEN 0 ELSE CHOOSE i \in hits : \A j \in hits : i <= j

\* FbBusConnector.get_device_by_serial_number
get_device_by_serial_number(c, serial_number) ==
    LET hits == {i \in 1..Len(c.devices) : c.devices[i].serial_number = serial_number}
    IN  IF hits = {} THEN 0 ELSE CHOOSE i \in hits : \A j \in hits : i <= j

\* the scan of create_device: for i in range(1, MAX_ADDRESS), 0 when none is free
free_address(reserved_addresses) ==
    LET free == {i \in 1..(MAX_ADDRESS - 1) : i \notin reserved_addresses}
    IN  IF free = {} THEN 0 ELSE CHOOSE i \in free : \A j \in free : i <= j

\* FbBusConnector.create_device: raises when no address is free
create_device(c, serial_number) ==
    LET reserved_addresses == {c.devices[i].address : i \in 1..Len(c.devices)}
        address == free_address(reserved_addresses)
    IN  IF address = 0
        THEN [c EXCEPT !.raised = TRUE]
        ELSE [c EXCEPT !.devices = Append(@, [NewDevice(serial_number, address)
                                                 EXCEPT !.state = "connected"]),
                       !.hist = Append(@, [unanswered |-> 0, last_frame |-> 0,
                                           asked |-> None, cycle |-> <<>>])]

\* FbBusConnector.propagate_device_state
propagate_device_state(c, i) ==
    [c EXCEPT !.up = Append(@, [call |-> "device_state", device |-> i,
                                state |-> c.devices[i].state])]

\* FbBusConnector.propagate_device: the device, its registers and settings
propagate_device(c, i) ==
    [c EXCEPT !.up = Append(@, [call |-> "device", device |-> i,
                                state |-> c.devices[i].state])]

\* FbBusConnector.send_packet: the frame is handed to the transport.  The step
\* records what the device looked like when its handler decided to send:
\*   latch      the reply it was waiting for
\*   replied    a matching reply was handled since the request before
\*   recent     the request before is younger than READING_DELAY
\*   lost_for, quiet_for
\*              PING_DELAY has passed since the device was lost, and since
\*              the last frame sent to it
send_packet(c, i, packet, cmd, t) ==
    [c EXCEPT !.sent = Append(@, [device |-> i, packet |-> packet, cmd |-> cmd,
                                  value |-> None, start |-> None, length |-> None,
                                  state |-> c.devices[i].state,
                                  latch |-> c.devices[i].waiting_for_packet,
                                  replied |-> c.hist[i].unanswered = 0,
                                  recent |-> t - c.devices[i].last_packet_sent_timestamp
                                                < READING_DELAY,
                                  lost_for |-> t - c.devices[i].lost_timestamp >= PING_DELAY,
                                  quiet_for |-> t - c.hist[i].last_frame >= PING_DELAY]),
               !.hist[i] = [@ EXCEPT
                               !.unanswered = IF @ < MAX_TRANSMIT_ATTEMPTS
                                              THEN @ + 1 ELSE @,
                               !.last_frame = t,
                               !.asked = IF packet = "ping" THEN "pong" ELSE packet]]

\* a frame of the kind that answers the last request to device i has been
\* handled
matching_reply(c, i, packet) ==
    IF c.hist[i].asked = packet
    THEN [c EXCEPT !.hist[i].unanswered = 0]
    ELSE c

\* ------------------------------------------------------- checking handler
\* CheckingHandler.__pong_receiver
pong_receiver(c, f, t) ==
    LET i == get_device_by_address(c, f.sender)
    IN  IF i = 0 THEN c
        ELSE LET c1 == matching_reply(c, i, "pong")
                 c2 == [c1 EXCEPT !.devices[i] = set_alive(@, t)]
             IN  propagate_device_state(
                     [c2 EXCEPT !.handled = Append(@, Handled("pong", i, f, c.devices[i].state, FALSE))], i)

\* CheckingHandler.__get_state_receiver and __report_state_receiver
state_receiver(c, f, t) ==
    LET i == get_device_by_address(c, f.sender)
    IN  IF i = 0 THEN c
        ELSE IF ~f.length_ok THEN c
        ELSE LET c1 == matching_reply(c, i, f.packet)
                 c2 == [c1 EXCEPT !.devices[i] =
                            set_state(@, transform_state_for_gateway(f.byte), t)]
             IN  propagate_device_state(c2, i)

\* CheckingHandler.receive (a SET_STATE frame is validated and dropped)
checking_receive(c, f, t) ==
    IF f.packet = "pong" THEN pong_receiver(c, f, t)
    ELSE IF f.packet \in {"get_state", "report_state"} THEN state_receiver(c, f, t)
    ELSE c

\* ----------------------------------------- reading and writing handlers
\* FbBusConnector.update_register_value for the register of type register_type
\* at address of device i: the value is stored and sent upstream; nothing
\* is done for a register the device does not have
update_register_value(c, i, register_type, address, value) ==
    IF address >= c.devices[i].registers[register_type] THEN c
    ELSE [c EXCEPT !.devices[i].values[register_type][address + 1] = value,
                   !.up = Append(@, [call |-> "property_value", device |-> i,
                                     state |-> value])]

\* the loop of __read_multiple_registers_receiver over the bits of a DI or DO
\* response, from bit k on: bit k is the value of the register at start + k - 1
RECURSIVE read_bits(_, _, _, _)
read_bits(c, i, f, k) ==
    IF k > Len(f.data) THEN c
    ELSE read_bits(update_register_value(c, i, f.type, f.start + k - 1,
                                         IF f.data[k] = 1 THEN True ELSE False),
                   i, f, k + 1)

\* ReadingHandler.__read_multiple_registers_receiver
read_multiple_registers_receiver(c, f) ==
    LET i == get_device_by_address(c, f.sender)
    IN  IF i = 0 THEN c
        ELSE IF ~f.type_ok THEN c
        ELSE LET c1 == matching_reply(c, i, f.packet)
                 c2 == IF f.type \in DigitalTypes THEN read_bits(c1, i, f, 1) ELSE c1
             IN  [c2 EXCEPT !.devices[i] = reset_communication(@)]

\* a receiver that ends the exchange before it looks at the register type
write_single_registers_receiver_resets(c, f) ==
    LET i == get_device_by_address(c, f.sender)
    IN  IF i = 0 THEN c
        ELSE [c EXCEPT !.devices[i] = reset_communication(@)]

\* WritingHandler.__write_single_registers_receiver
write_single_registers_receiver(c, f) ==
    LET i == get_device_by_address(c, f.sender)
    IN  IF i = 0 THEN c
        ELSE IF ~f.type_ok THEN c
        ELSE LET c1 == matching_reply(c, i, f.packet)
                 c2 == IF f.type = "DO"
                       THEN update_register_value(c1, i, "DO", f.start,
                                                  IF f.value = ON THEN True ELSE False)
                       ELSE c1
             IN  [c2 EXCEPT !.devices[i] = reset_communication(@)]

\* ReadingHandler.receive
reading_receive(c, f) ==
    IF f.packet = "read_multiple_registers" THEN read_multiple_registers_receiver(c, f) ELSE c

\* ReportingHandler.receive with __reported_single_registers_receiver (the
\* value of an AI register is not kept)
reporting_receive(c, f) ==
    LET i == get_device_by_address(c, f.sender)
    IN  IF i = 0 THEN c
        ELSE IF f.packet # "report_single_register" THEN c
        ELSE IF ~f.type_ok THEN c
        ELSE IF f.type = "DI"
        THEN update_register_value(c, i, "DI", f.start,
                                   IF f.value = ON THEN True ELSE False)
        ELSE c

\* WritingHandler.receive
writing_receive(c, f) ==
    IF f.packet = "write_single_register" THEN write_single_registers_receiver(c, f) ELSE c

\* --------------------------------------------------------- pairing helper
\* PairingHelper.__device_address_receiver
device_address_receiver(c, f) ==
    IF f.address # f.sender THEN c
    ELSE
    LET known == get_device_by_serial_number(c, f.serial_number)
        c1 == IF known = 0 THEN create_device(c, f.serial_number)
              ELSE IF /\ f.address # c.devices[known].address
                      /\ f.address # ADDRESS_NOT_ASSIGNED
                      /\ c.devices[known].address = ADDRESS_NOT_ASSIGNED
                   \* the uniqueness test compares the device's serial number
                   \* with itself, so the reported address is always adopted
                   THEN [c EXCEPT !.devices[known].address = f.address]
                   ELSE c
        i == IF known = 0 THEN Len(c1.devices) ELSE known
    IN  IF c1.raised THEN c1
        ELSE
        LET c2 == matching_reply(c1, i, "pair_device")
            dv == IF f.address = ADDRESS_NOT_ASSIGNED
                  THEN [set_state(c2.devices[i], "connected", 0)
                            EXCEPT !.pairing_cmd = "set_address"]
                  ELSE [set_state(c2.devices[i], "init", 0)
                            EXCEPT !.pairing_cmd = "provide_about_info"]
        IN  [c2 EXCEPT !.devices[i] = reset_communication(dv),
                       !.handled = Append(@, Handled("device_address", i, f,
                                   IF known = 0 THEN None ELSE c.devices[i].state,
                                   c.pairing_device = i)),
                       !.pairing_device = i,
                       !.attempts = 0,
                       !.last_pairing_request_broadcast = 0]

\* PairingHelper.__device_address_accepted_receiver
device_address_accepted_receiver(c, f) ==
    LET i == get_device_by_address(c, f.sender)
    IN  IF i = 0 THEN c
        ELSE IF c.devices[i].serial_number # f.serial_number THEN c
        ELSE LET c1 == matching_reply(c, i, "pair_device")
             IN  [c1 EXCEPT !.devices[i] = reset_communication(
                     [set_state(@, "init", 0) EXCEPT !.pairing_cmd = "provide_about_info"])]

\* the receiver when DeviceEntity.get_settings_support only read the flag
device_about_info_receiver_keeps(c, f) ==
    LET i == get_device_by_address(c, f.sender)
    IN  IF i = 0 THEN c
        ELSE LET c1 == matching_reply(c, i, "pair_device")
             IN  [c1 EXCEPT !.devices[i] = reset_communication(
                     [@ EXCEPT !.max_packet_length = f.max_packet_length,
                               !.description_support = f.description_support,
                               !.pairing_cmd = IF f.description_support
                                               THEN "provide_device_model"
                                               ELSE "provide_registers_size"])]

\* PairingHelper.__device_about_info_receiver; get_settings_support is a
\* setter in the source, so the reported flag is stored like the others
device_about_info_receiver(c, f) ==
    LET i == get_device_by_address(c, f.sender)
    IN  IF i = 0 THEN c
        ELSE LET c1 == matching_reply(c, i, "pair_device")
             IN  [c1 EXCEPT !.devices[i] = reset_communication(
                     [@ EXCEPT !.max_packet_length = f.max_packet_length,
                               !.description_support = f.description_support,
                               !.settings_support = f.settings_support,
                               !.pairing_cmd = IF f.description_support
                                               THEN "provide_device_model"
                                               ELSE "provide_registers_size"])]

\* a description walk that starts over after the firmware version
next_description_cmd_restarts(response) ==
    CASE response = "device_model" -> "provide_device_manufacturer"
      [] response = "device_manufacturer" -> "provide_device_version"
      [] response = "device_version" -> "provide_firmware_manufacturer"
      [] response = "firmware_manufacturer" -> "provide_firmware_version"
      [] response = "firmware_version" -> "provide_device_model"

\* the command that follows a description response
next_description_cmd(response) ==
    CASE response = "device_model" -> "provide_device_manufacturer"
      [] response = "device_manufacturer" -> "provide_device_version"
      [] response = "device_version" -> "provide_firmware_manufacturer"
      [] response = "firmware_manufacturer" -> "provide_firmware_version"
      [] response = "firmware_version" -> "provide_registers_size"

\* PairingHelper.__device_description_receiver
device_description_receiver(c, f) ==
    LET i == get_device_by_address(c, f.sender)
    IN  IF i = 0 THEN c
        ELSE LET c1 == matching_reply(c, i, "pair_device")
             IN  [c1 EXCEPT !.devices[i] = reset_communication(
                     [@ EXCEPT !.pairing_cmd = next_description_cmd(f.response)])]

\* PairingHelper.__registers_size_receiver, for a device whose registers of
\* each type are those at the addresses below their number:
\* __configure_registers (configure_registers below) then leaves each type
\* with the reported number of registers
registers_size_receiver(c, f) ==
    LET i == get_device_by_address(c, f.sender)
    IN  IF i = 0 THEN c
        ELSE
        LET c1 == matching_reply(c, i, "pair_device")
            dv == [c1.devices[i] EXCEPT
                      !.registers = f.registers,
                      !.values = [rt \in DigitalTypes |->
                                     [k \in 1..f.registers[rt] |->
                                         IF k <= Len(@[rt]) THEN @[rt][k] ELSE None]]]
            d2 == IF dv.registers["AI"] > 0
                  THEN [dv EXCEPT !.reading_register = [address |-> 0, type |-> "AI"],
                                  !.pairing_cmd = "provide_registers_structure"]
                  ELSE IF dv.registers["AO"] > 0
                  THEN [dv EXCEPT !.reading_register = [address |-> 0, type |-> "AO"],
                                  !.pairing_cmd = "provide_registers_structure"]
                  ELSE IF dv.settings_support
                  THEN [dv EXCEPT !.pairing_cmd = "provide_settings_size"]
                  ELSE [dv EXCEPT !.pairing_cmd = "finished"]
        IN  [c1 EXCEPT !.devices[i] = reset_communication(d2)]

\* PairingHelper.__registers_structure_receiver
registers_structure_receiver(c, f) ==
    LET i == get_device_by_address(c, f.sender)
    IN  IF i = 0 THEN c
        ELSE IF ~f.type_ok THEN c
        ELSE IF c.devices[i].registers[f.type] = 0 THEN c
        ELSE
        LET c1 == matching_reply(c, i, "pair_device")
            dv == reset_communication(c1.devices[i])
            d2 == IF dv.registers[f.type] > f.start + f.length
                  THEN [dv EXCEPT !.reading_register =
                                      [address |-> f.start + f.length, type |-> f.type]]
                  ELSE IF f.type = "AI" /\ dv.registers["AO"] > 0
                  THEN [dv EXCEPT !.reading_register = [address |-> 0, type |-> "AO"]]
                  ELSE [dv EXCEPT !.pairing_cmd = "provide_settings_size"]
        IN  [c1 EXCEPT !.devices[i] = d2]

\* PairingHelper.__settings_size_receiver
settings_size_receiver(c, f) ==
    LET i == get_device_by_address(c, f.sender)
    IN  IF i = 0 THEN c
        ELSE
        LET c1 == matching_reply(c, i, "pair_device")
            dv == [c1.devices[i] EXCEPT !.settings = f.settings]
            d2 == IF dv.settings["DEVICE"] > 0
                  THEN [dv EXCEPT !.reading_setting = [address |-> 0, type |-> "DEVICE"],
                                  !.pairing_cmd = "provide_settings_structure"]
                  ELSE IF dv.settings["REGISTER"] > 0
                  THEN [dv EXCEPT !.reading_setting = [address |-> 0, type |-> "REGISTER"],
                                  !.pairing_cmd = "provide_settings_structure"]
                  ELSE [dv EXCEPT !.pairing_cmd = "finished"]
        IN  [c1 EXCEPT !.devices[i] = reset_communication(d2)]

\* the settings walked by the loop of __settings_structure_receiver:
\* for i in range(start_address, payload_length), left when the counter
\* reaches read_length
registers_counter(f) ==
    IF f.payload_length <= f.start THEN 0
    ELSE IF f.length >= 1 /\ f.length <= f.payload_length - f.start THEN f.length
    ELSE f.payload_length - f.start

\* PairingHelper.__settings_structure_receiver
settings_structure_receiver(c, f) ==
    LET i == get_device_by_address(c, f.sender)
    IN  IF i = 0 THEN c
        ELSE IF ~f.type_ok THEN c
        ELSE IF c.devices[i].settings[f.type] = 0 THEN c
        ELSE
        LET c1 == matching_reply(c, i, "pair_device")
            dv == reset_communication(c1.devices[i])
            d2 == IF dv.settings[f.type] > f.start + registers_counter(f)
                  THEN [dv EXCEPT !.reading_setting =
                            [address |-> f.start + registers_counter(f), type |-> f.type]]
                  ELSE IF f.type = "DEVICE" /\ dv.settings["REGISTER"] > 0
                  THEN [dv EXCEPT !.reading_setting = [address |-> 0, type |-> "REGISTER"]]
                  ELSE [dv EXCEPT !.pairing_cmd = "finished"]
        IN  [c1 EXCEPT !.devices[i] = d2]

\* PairingHelper.__pairing_finished_receiver
pairing_finished_receiver(c, f) ==
    LET i == get_device_by_address(c, f.sender)
    IN  IF i = 0 THEN c
        ELSE
        LET c1 == matching_reply(c, i, "pair_device")
            c2 == [c1 EXCEPT !.pairing_device = 0,
                             !.pairing_enabled = FALSE,
                             !.devices[i] = [set_state(@, transform_state_for_gateway(f.byte), 0)
                                                EXCEPT !.pairing_cmd = None]]
        IN  propagate_device(
                [c2 EXCEPT !.handled = Append(@, Handled("finished", i, f, c.devices[i].state,
                                                         c.pairing_device = i))], i)

DescriptionResponses ==
    {"device_model", "device_manufacturer", "device_version",
     "firmware_manufacturer", "firmware_version"}

\* PairingHelper.receive
pairing_receive(c, f) ==
    IF f.packet # "pair_device" THEN c
    ELSE CASE f.response = "device_address" -> device_address_receiver(c, f)
           [] f.response = "address_accepted" -> device_address_accepted_receiver(c, f)
           [] f.response = "about_info" -> device_about_info_receiver(c, f)
           [] f.response \in DescriptionResponses -> device_description_receiver(c, f)
           [] f.response = "registers_size" -> registers_size_receiver(c, f)
           [] f.response = "registers_structure" -> registers_structure_receiver(c, f)
           [] f.response = "settings_size" -> settings_size_receiver(c, f)
           [] f.response = "settings_structure" -> settings_structure_receiver(c, f)
           [] f.response = "finished" -> pairing_finished_receiver(c, f)
           [] OTHER -> [c EXCEPT !.raised = TRUE]

\* ---------------------------------------------------------------- connector
\* FbBusConnector.receive
receive(c, f, t) ==
    IF /\ f.sender # ADDRESS_NOT_ASSIGNED
       /\ ~c.pairing_enabled
       /\ get_device_by_address(c, f.sender) = 0
    THEN c
    ELSE LET c1 == pairing_receive(c, f)
         IN  IF c1.raised \/ c1.pairing_enabled THEN c1
             ELSE writing_receive(
                      reporting_receive(
                          reading_receive(checking_receive(c1, f, t), f), f), f)

\* the outcome of send_packet's wait for an acknowledge: the window runs out
\* and the call returns False, or the link's loop delivers a frame, which is
\* dispatched to receive() before the call returns True
timed_out(out) == out.packet = "timeout"

\* the part of a sending handler that follows the bookkeeping: send, wait, and
\* reset_communication when the result is False
send_and_wait(c, i, out, t) ==
    IF timed_out(out)
    THEN [c EXCEPT !.devices[i] = reset_communication(@)]
    ELSE receive(c, out, t)

\* CheckingHandler.__send_ping_handler (no wait: the result is True)
send_ping_handler(c, i, t) ==
    [send_packet(c, i, "ping", None, t) EXCEPT
        !.devices[i].waiting_for_packet = "pong",
        !.devices[i].last_packet_sent_timestamp = t,
        !.devices[i].attempts = @ + 1]

\* CheckingHandler.__send_get_device_state_handler
send_get_device_state_handler(c, i, out, t) ==
    LET c1 == [send_packet(c, i, "get_state", None, t) EXCEPT
                  !.devices[i].attempts = @ + 1,
                  !.devices[i].waiting_for_packet = "get_state",
                  !.devices[i].last_packet_sent_timestamp = t]
    IN  send_and_wait(c1, i, out, t)

\* the first part of CheckingHandler.handle: the attempt budget
check_attempts(c, i, t) ==
    IF c.devices[i].attempts >= MAX_TRANSMIT_ATTEMPTS
    THEN propagate_device_state(
             [c EXCEPT !.devices[i] = set_state(@, "lost", t),
                       !.hist[i].unanswered = 0], i)
    ELSE c

\* a PING condition that does not look at the last frame sent
ping_due_since_lost(dv, t) ==
    /\ dv.state = "lost"
    /\ t - dv.lost_timestamp >= PING_DELAY

\* the PING condition of CheckingHandler.handle
ping_due(dv, t) ==
    /\ dv.state = "lost"
    /\ t - dv.lost_timestamp >= PING_DELAY
    /\ t - dv.last_packet_sent_timestamp >= PING_DELAY

\* CheckingHandler.handle
checking_handle(c, i, out, t) ==
    LET c1 == check_attempts(c, i, t)
    IN  IF ping_due(c1.devices[i], t) THEN send_ping_handler(c1, i, t)
        ELSE IF c1.devices[i].state = "unknown"
        THEN send_get_device_state_handler(c1, i, out, t)
        ELSE c1

\* does checking_handle wait for an acknowledge
checking_waits(c, i, t) ==
    LET c1 == check_attempts(c, i, t)
    IN  ~ping_due(c1.devices[i], t) /\ c1.devices[i].state = "unknown"

\* ReadingHandler.__update_reading_pointer: the next populated register type
\* after the cursor's, or reset_reading_register (which stamps the read time)
update_reading_pointer(dv, t) ==
    LET type == dv.reading_register.type
        after == CASE type = "DI" -> <<"DO", "AI", "AO">>
                   [] type = "DO" -> <<"AI", "AO">>
                   [] type = "AI" -> <<"AO">>
                   [] OTHER -> <<>>
        populated == {k \in 1..Len(after) : dv.registers[after[k]] > 0}
    IN  IF populated = {}
        THEN [dv EXCEPT !.reading_registers_timestamp = t, !.reading_register = NoCursor]
        ELSE [dv EXCEPT !.reading_register =
                 [address |-> 0,
                  type |-> after[CHOOSE k \in populated : \A m \in populated : k <= m]]]

\* the registers one READ_MULTIPLE_REGISTERS frame may ask for
max_readable_registers_count(dv, register_type) ==
    IF register_type \in {"DI", "DO"}
    THEN (dv.max_packet_length - 7) * 8
    ELSE (dv.max_packet_length - 7) \div 4

\* the length field of the READ_MULTIPLE_REGISTERS request
read_length(dv, register_type, start_address) ==
    LET register_size == dv.registers[register_type]
        max_readable_addresses ==
            start_address + max_readable_registers_count(dv, register_type) - 1
    IN  IF max_readable_addresses + 1 >= register_size
        THEN IF start_address = 0 THEN register_size
             ELSE register_size - start_address
        ELSE max_readable_registers_count(dv, register_type)

\* ReadingHandler.__read_multiple_registers (send_packet without a wait
\* returns True)
read_multiple_registers(c, i, register_type, t) ==
    LET dv == c.devices[i]
        start_address == dv.reading_register.address
        length == read_length(dv, register_type, start_address)
        next_address == start_address + length
        d1 == [dv EXCEPT !.waiting_for_packet = "read_multiple_registers",
                         !.last_packet_sent_timestamp = t,
                         !.attempts = @ + 1,
                         !.reading_register =
                             [address |-> next_address, type |-> register_type]]
        d2 == IF next_address + 1 > dv.registers[register_type]
              THEN update_reading_pointer(d1, t) ELSE d1
    IN  IF length <= 0 THEN c
        ELSE [send_packet(c, i, "read_multiple_registers", register_type, t)
                 EXCEPT !.devices[i] = d2,
                        !.sent[Len(c.sent) + 1].start = start_address,
                        !.sent[Len(c.sent) + 1].length = length,
                        !.hist[i].cycle =
                            (IF dv.reading_register.type = None THEN <<>> ELSE @)
                            \o <<[type |-> register_type, start |-> start_address,
                                  length |-> length]>>]

\* ReadingHandler.__read_handler: the register type to read, None for none
read_handler_type(dv) ==
    LET cursor == dv.reading_register.type
        order == <<"DI", "DO", "AI", "AO">>
        fit == {k \in 1..4 : dv.registers[order[k]] > 0 /\ cursor \in {order[k], None}}
    IN  IF fit = {} THEN None
        ELSE order[CHOOSE k \in fit : \A m \in fit : k <= m]

\* ReadingHandler.handle without the test of is_ready
reading_handle_any_state(c, i, t) ==
    LET dv == c.devices[i]
    IN  IF /\ \/ dv.waiting_for_packet = None
              \/ t - dv.last_packet_sent_timestamp >= READING_DELAY
           /\ t - dv.reading_registers_timestamp >= SAMPLING_TIME
           /\ read_handler_type(dv) # None
        THEN read_multiple_registers(c, i, read_handler_type(dv), t)
        ELSE c

\* ReadingHandler.handle
reading_handle(c, i, t) ==
    LET dv == c.devices[i]
    IN  IF dv.state # "running" THEN c
        ELSE IF /\ \/ dv.waiting_for_packet = None
                   \/ t - dv.last_packet_sent_timestamp >= READING_DELAY
                /\ t - dv.reading_registers_timestamp >= SAMPLING_TIME
                /\ read_handler_type(dv) # None
        THEN read_multiple_registers(c, i, read_handler_type(dv), t)
        ELSE c

\* the values publish() is called with for a register
Expected == {"toggle", True, False}

\* FbBusConnector.publish: "toggle" for a DO register is the negation of the
\* register's value, True for a register that has none yet
toggled(dv, register_type, expected) ==
    IF register_type = "DO" /\ expected = "toggle"
    THEN IF dv.values["DO"][1] = True THEN False ELSE True
    ELSE expected

\* the 16 bits WritingHandler.write_value_to_register sends for a DO register
\* (the bytes of an AO register's value are not kept)
write_value(register_type, expected) ==
    IF register_type # "DO" THEN None
    ELSE IF expected = True THEN ON ELSE 0

\* WritingHandler.write_value_to_register from its bookkeeping on
write_single_register(c, i, register_type, expected, out, t) ==
    LET c1 == [send_packet(c, i, "write_single_register", register_type, t) EXCEPT
                  !.sent[Len(c.sent) + 1].value = write_value(register_type, expected),
                  !.devices[i].attempts = @ + 1,
                  !.devices[i].waiting_for_packet = "write_single_register",
                  !.devices[i].last_packet_sent_timestamp = t]
    IN  send_and_wait(c1, i, out, t)

\* a publish that writes to a register of any type
publish_any_register(c, i, register_type, expected, out, t) ==
    IF c.devices[i].state # "running" THEN c
    ELSE write_single_register(c, i, register_type,
                               toggled(c.devices[i], register_type, expected), out, t)

\* FbBusConnector.publish with WritingHandler.write_value_to_register, for a
\* property that resolves to the register at address 0 of type register_type
\* of device i (an AO value is taken to be one that can be packed)
publish(c, i, register_type, expected, out, t) ==
    IF c.devices[i].state # "running" THEN c
    ELSE IF register_type \notin {"DO", "AO"} THEN c
    ELSE write_single_register(c, i, register_type,
                               toggled(c.devices[i], register_type, expected), out, t)

\* PairingHelper.__send_data_to_device
send_data_to_device(c, i, cmd, out, t) ==
    LET c1 == [send_packet(c, i, "pair_device", cmd, t) EXCEPT
                  !.devices[i].attempts = @ + 1,
                  !.devices[i].waiting_for_packet = "pair_device",
                  !.devices[i].last_packet_sent_timestamp = t]
    IN  send_and_wait(c1, i, out, t)

\* Python's round(x / d) for integers x and d > 0: to the nearest integer,
\* and to the even one of two that are equally near
round(x, d) ==
    LET q == x \div d
        r == x % d
    IN  IF 2 * r < d THEN q
        ELSE IF 2 * r > d THEN q + 1
        ELSE IF q % 2 = 0 THEN q ELSE q + 1

\* the settings PairingHelper.__send_provide_settings_structure_handler takes
\* one packet to hold: a device setting is 12 bytes long, a register
\* setting 15
max_readable_settings_count(dv, setting_type) ==
    round(dv.max_packet_length - 5, IF setting_type = "DEVICE" THEN 12 ELSE 15)

\* the length field of its request
settings_read_length(dv) ==
    LET start_address == dv.reading_setting.address
        setting_type == dv.reading_setting.type
        settings_size == dv.settings[setting_type]
        max_readable_addresses ==
            start_address + max_readable_settings_count(dv, setting_type) - 1
    IN  IF max_readable_addresses + 1 >= settings_size
        THEN IF start_address = 0 THEN settings_size
             ELSE settings_size - start_address
        ELSE max_readable_settings_count(dv, setting_type)

\* PairingHelper.__send_provide_settings_structure_handler
send_provide_settings_structure_handler(c, i, out, t) ==
    [send_data_to_device(c, i, "provide_settings_structure", out, t) EXCEPT
        !.sent[Len(c.sent) + 1].length = settings_read_length(c.devices[i])]

\* PairingHelper.__broadcast_pairing_request_handler with the bookkeeping of
\* handle() that follows it; the broadcast goes to no device of the registry
broadcast_pairing_request(c, out, t) ==
    LET c1 == [c EXCEPT !.sent = Append(@, [device |-> 0, packet |-> "pair_device",
                                            cmd |-> "provide_address", state |-> None,
                                            value |-> None, start |-> None, length |-> None,
                                            latch |-> None, replied |-> TRUE,
                                            recent |-> FALSE, lost_for |-> FALSE,
                                            quiet_for |-> FALSE])]
        c2 == IF timed_out(out) THEN c1 ELSE receive(c1, out, t)
    IN  IF c2.raised THEN c2
        ELSE [c2 EXCEPT !.attempts = @ + 1,
                        !.last_pairing_request_broadcast = t]

\* the commands PairingHelper.handle sends with __send_pairing_cmd_handler
SimplePairingCommands ==
    {"provide_about_info", "provide_device_model", "provide_device_manufacturer",
     "provide_device_version", "provide_firmware_manufacturer",
     "provide_firmware_version", "provide_registers_size",
     "provide_settings_size", "finished"}

\* a search timeout that is reached one attempt late
searching_exhausted_late(c) == c.attempts > MAX_SEARCHING_ATTEMPTS

\* the search timeout of PairingHelper.handle
searching_exhausted(c) == c.attempts >= MAX_SEARCHING_ATTEMPTS

\* is the searching branch of PairingHelper.handle due to broadcast
search_due(c, t) ==
    /\ ~searching_exhausted(c)
    /\ \/ c.last_pairing_request_broadcast = 0
       \/ t - c.last_pairing_request_broadcast >= SEARCHING_DELAY

\* the frame PairingHelper.handle sends to the latched device i, None when it
\* gives up instead
pairing_request(c, i) ==
    LET dv == c.devices[i]
    IN  IF dv.attempts >= MAX_TRANSMIT_ATTEMPTS THEN None
        ELSE IF dv.pairing_cmd = "set_address"
        THEN IF dv.state # "connected" THEN None ELSE "set_address"
        ELSE IF dv.state # "init" THEN None
        ELSE IF dv.pairing_cmd \in SimplePairingCommands
                  \cup {"provide_registers_structure", "provide_settings_structure"}
        THEN dv.pairing_cmd
        ELSE None

\* PairingHelper.handle
pairing_handle(c, out, t) ==
    IF ~c.pairing_enabled THEN c
    ELSE IF c.pairing_device = 0
    THEN IF searching_exhausted(c)
         THEN [c EXCEPT !.pairing_enabled = FALSE,
                        !.attempts = 0,
                        !.last_pairing_request_broadcast = 0]
         ELSE IF search_due(c, t) THEN broadcast_pairing_request(c, out, t)
         ELSE c
    ELSE
    LET i == c.pairing_device
        dv == c.devices[i]
    IN  IF dv.attempts >= MAX_TRANSMIT_ATTEMPTS
        THEN [c EXCEPT !.devices[i] = set_state(@, "lost", t),
                       !.hist[i].unanswered = 0,
                       !.pairing_device = 0,
                       !.pairing_enabled = FALSE]
        ELSE IF dv.pairing_cmd = "set_address"
        THEN IF dv.state # "connected"
             THEN [c EXCEPT !.pairing_device = 0, !.pairing_enabled = FALSE]
             ELSE send_data_to_device(c, i, "set_address", out, t)
        ELSE IF dv.state # "init"
        THEN [c EXCEPT !.pairing_device = 0]
        ELSE IF dv.pairing_cmd \in SimplePairingCommands
        THEN send_data_to_device(c, i, dv.pairing_cmd, out, t)
        ELSE IF dv.pairing_cmd = "provide_registers_structure"
        THEN IF dv.reading_register.type \notin {"AI", "AO"}
             THEN [c EXCEPT !.raised = TRUE]
             ELSE send_data_to_device(c, i, dv.pairing_cmd, out, t)
        ELSE IF dv.pairing_cmd = "provide_settings_structure"
        THEN IF dv.reading_setting.type = None
             THEN [c EXCEPT !.raised = TRUE]
             ELSE send_provide_settings_structure_handler(c, i, out, t)
        ELSE c

\* does pairing_handle wait for an acknowledge
pairing_waits(c, t) ==
    /\ c.pairing_enabled
    /\ IF c.pairing_device = 0 THEN search_due(c, t)
       ELSE pairing_request(c, c.pairing_device) # None

\* ------------------------------------------------------------ environment
\* the serial numbers and the bus addresses that frames carry
Serials == {"A", "B"}
BusAddresses == {1, 2, ADDRESS_NOT_ASSIGNED}

StateBytes == {1, 2, 3}

RegisterLayouts ==
    { [rt \in RegistersTypes |-> 0],
      [rt \in RegistersTypes |-> IF rt \in {"DI", "DO"} THEN MaxRegisters ELSE 0],
      [rt \in RegistersTypes |-> MaxRegisters] }

SettingLayouts ==
    { [k \in SettingsTypes |-> 0], [k \in SettingsTypes |-> MaxRegisters] }

\* the fields of an inbound frame that no handler of its packet reads
Frame(packet, sender) ==
    [ packet |-> packet, sender |-> sender, response |-> None,
      address |-> 0, serial_number |-> None, length_ok |-> TRUE, byte |-> 0,
      type_ok |-> TRUE, type |-> "DI", start |-> 0, length |-> 0,
      value |-> 0, data |-> <<>>,
      payload_length |-> 0, max_packet_length |-> 0,
      description_support |-> FALSE, settings_support |-> FALSE,
      registers |-> [rt \in RegistersTypes |-> 0],
      settings |-> [k \in SettingsTypes |-> 0] ]

PairFrame(response, sender) ==
    [Frame("pair_device", sender) EXCEPT !.response = response]

\* the answers to a PROVIDE_ADDRESS broadcast: a device reports its serial
\* number and the address it holds (the sender's); one frame reports another
AddressReplies ==
    {[PairFrame("device_address", a) EXCEPT !.address = a, !.serial_number = "A"] :
        a \in BusAddresses}
    \cup {[PairFrame("device_address", 1) EXCEPT !.address = 2, !.serial_number = "A"]}

\* the response that answers a pairing command
response_of(cmd) ==
    CASE cmd = "set_address" -> "address_accepted"
      [] cmd = "provide_about_info" -> "about_info"
      [] cmd = "provide_device_model" -> "device_model"
      [] cmd = "provide_device_manufacturer" -> "device_manufacturer"
      [] cmd = "provide_device_version" -> "device_version"
      [] cmd = "provide_firmware_manufacturer" -> "firmware_manufacturer"
      [] cmd = "provide_firmware_version" -> "firmware_version"
      [] cmd = "provide_registers_size" -> "registers_size"
      [] cmd = "provide_registers_structure" -> "registers_structure"
      [] cmd = "provide_settings_size" -> "settings_size"
      [] cmd = "provide_settings_structure" -> "settings_structure"
      [] cmd = "finished" -> "finished"
      [] OTHER -> None

\* the payloads a device at address a may answer a pairing command with
RepliesTo(cmd, a) ==
    LET response == response_of(cmd)
    IN  CASE response = "address_accepted" ->
               {[PairFrame(response, a) EXCEPT !.serial_number = sn] : sn \in Serials}
          [] response = "about_info" ->
               {[PairFrame(response, a) EXCEPT
                    !.max_packet_length = 8 + 4 * MaxRegisters,
                    !.description_support = d, !.settings_support = ~d] : d \in BOOLEAN}
          [] response \in DescriptionResponses -> {PairFrame(response, a)}
          [] response = "registers_size" ->
               {[PairFrame(response, a) EXCEPT !.registers = l] : l \in RegisterLayouts}
          [] response = "registers_structure" ->
               {[PairFrame(response, a) EXCEPT !.type = rt, !.length = MaxRegisters] :
                    rt \in {"AI", "AO"}}
          [] response = "settings_size" ->
               {[PairFrame(response, a) EXCEPT !.settings = l] : l \in SettingLayouts}
          [] response = "settings_structure" ->
               {[PairFrame(response, a) EXCEPT !.type = k, !.length = MaxRegisters,
                                               !.payload_length = MaxRegisters] :
                    k \in SettingsTypes}
          [] response = "finished" ->
               {[PairFrame(response, a) EXCEPT !.byte = b] : b \in StateBytes}
          [] OTHER -> {}

\* the frames of the checking, reading and writing handlers from sender a
DeviceFrames(a) ==
    {Frame("pong", a), Frame("set_state", a)}
    \cup {[Frame("get_state", a) EXCEPT !.byte = b] : b \in StateBytes}
    \cup {[Frame("get_state", a) EXCEPT !.length_ok = FALSE],
          [Frame("report_state", a) EXCEPT !.byte = 1],
          Frame("read_multiple_registers", a),
          [Frame("read_multiple_registers", a) EXCEPT !.type_ok = FALSE],
          Frame("write_single_register", a)}

\* the inbound frames the link may deliver while pairing stays off: those of
\* the device at address 1, and one of a sender that is not in the registry
CheckingFrames == DeviceFrames(1) \cup {Frame("pong", ADDRESS_NOT_ASSIGNED)}

\* __load_devices: a configured device is UNKNOWN, with its registers
LoadedDevice(sn, address, layout) ==
    [NewDevice(sn, address) EXCEPT
        !.registers = layout,
        !.values = [rt \in DigitalTypes |-> [k \in 1..layout[rt] |-> None]],
        !.max_packet_length = 1536]

\* the wait for an acknowledge ran out
Timeout == Frame("timeout", 0)

\* ------------------------------------------------------------------ state
VARIABLES
    devices, hist,              \* the registry, and what is recorded about it
    pairing_device, pairing_enabled, attempts, last_pairing_request_broadcast,
    stopped,                    \* FbBusConnector.__stopped
    packets_to_be_sent,         \* FbBusConnector.__packets_to_be_sent
    processed_devices,          \* FbBusConnector.__processed_devices
    pc,                         \* where run() is
    todo, iter_size,            \* the devices its for loop has still to visit,
                                \* and the size of the dictionary it iterates
    now,                        \* time.time()
    sent, up, handled,          \* the observations of the last step
    broadcasts,                 \* PROVIDE_ADDRESS broadcasts since searching was
                                \* enabled or a pairing response was handled
    queue,                      \* Connectors.__queue, as its number of records
    producers,                  \* the threads inside Connectors.add_or_edit_*,
                                \* delete_* and __publish_*_value_event
    registers,                  \* FbBusConnector.__registers, as the registers
                                \* of one device
    transform                   \* a register, a block of bytes read for it, and
                                \* what RegistersHelper made of them

vars == <<devices, hist, pairing_device, pairing_enabled, attempts,
          last_pairing_request_broadcast, stopped, packets_to_be_sent,
          processed_devices, pc, todo, iter_size, now, sent, up, handled,
          broadcasts, queue, producers, registers, transform>>

\* the connector as the record the operators above work on, with the
\* observations of the step started empty
Cur ==
    [ devices |-> devices, hist |-> hist, pairing_device |-> pairing_device,
      pairing_enabled |-> pairing_enabled, attempts |-> attempts,
      last_pairing_request_broadcast |-> last_pairing_request_broadcast,
      raised |-> FALSE, sent |-> <<>>, up |-> <<>>, handled |-> <<>> ]

Commit(c) ==
    /\ devices' = c.devices
    /\ hist' = c.hist
    /\ pairing_device' = c.pairing_device
    /\ pairing_enabled' = c.pairing_enabled
    /\ attempts' = c.attempts
    /\ last_pairing_request_broadcast' = c.last_pairing_request_broadcast
    /\ sent' = c.sent
    /\ up' = c.up
    /\ handled' = c.handled
    /\ broadcasts' =
          IF \E k \in 1..Len(c.handled) : c.handled[k].receiver # "pong" THEN 0
          ELSE broadcasts + Cardinality({k \in 1..Len(c.sent) :
                                           c.sent[k].cmd = "provide_address"})

\* the outcomes of a wait for an acknowledge, with frames of F on the link
Outcomes(F) == {Timeout} \cup F

\* Connectors.__queue is Queue(maxsize=QUEUE_MAXSIZE)
QUEUE_MAXSIZE == 1000

\* the threads that hand records to Connectors: the connector's loop and the
\* dispatcher of storage and trigger events
Producers == {"connector", "dispatcher"}

\* the thread of Connectors.run, which takes the records off the queue
Consumer == "consumer"

\* the threads that are in and out of Queue.put
Threads == Producers \cup {Consumer}

\* the connector after open(), with one of the registries loaded, and after
\* enable_searching() when enabled
Connector(registries, enabled) ==
    /\ devices \in registries
    /\ hist = [i \in 1..Len(devices) |->
                  [unanswered |-> 0, last_frame |-> 0, asked |-> None,
                   cycle |-> <<>>]]
    /\ pairing_device = 0
    /\ pairing_enabled = enabled
    /\ attempts = 0
    /\ last_pairing_request_broadcast = 0
    /\ stopped = FALSE
    /\ packets_to_be_sent = 0
    /\ processed_devices = {}
    /\ pc = "run"
    /\ todo = <<>>
    /\ iter_size = 0
    /\ now = StartTime
    /\ sent = <<>>
    /\ up = <<>>
    /\ handled = <<>>
    /\ broadcasts = 0
    /\ queue = 0
    /\ producers = [p \in Threads |-> "idle"]

\* the same, where the registers of the devices are kept as their numbers
\* only and no block of bytes is being transformed
Opened(registries, enabled) ==
    /\ Connector(registries, enabled)
    /\ registers = {}
    /\ transform = None

\* ---------------------------------------------------------------- actions
\* a pass that takes the first device only
unprocessed_first_only(n, k, done) == IF 1 \in done \/ n = 0 THEN <<>> ELSE <<1>>

\* the indices of seq that are not in done, in order
RECURSIVE Unprocessed(_, _, _)
Unprocessed(n, k, done) ==
    IF k > n THEN <<>>
    ELSE IF k \in done THEN Unprocessed(n, k + 1, done)
    ELSE <<k>> \o Unprocessed(n, k + 1, done)

\* FbBusConnector.run, from the top of the while loop to the for statement:
\* the pairing branch, or the start of a pass over the devices
RunStart(F) ==
    /\ pc = "run"
    /\ IF pairing_enabled
       THEN /\ \E out \in IF pairing_waits(Cur, now) THEN Outcomes(F) ELSE {Timeout} :
                 \E c \in {pairing_handle(Cur, out, now)} :
                     /\ Commit(c)
                     /\ pc' = IF c.raised THEN "dead" ELSE "transport"
            /\ UNCHANGED <<processed_devices, todo, iter_size>>
       ELSE IF packets_to_be_sent = 0
       THEN LET processed == IF Cardinality(processed_devices) = Len(devices)
                             THEN {} ELSE processed_devices
            IN  /\ processed_devices' = processed
                /\ todo' = Unprocessed(Len(devices), 1, processed)
                /\ iter_size' = Len(devices)
                /\ pc' = "devices"
                /\ Commit(Cur)
       ELSE /\ pc' = "transport"
            /\ Commit(Cur)
            /\ UNCHANGED <<processed_devices, todo, iter_size>>
    /\ UNCHANGED <<stopped, packets_to_be_sent, now>>
    /\ UNCHANGED <<queue, producers, registers, transform>>

\* one turn of the for loop of FbBusConnector.run: the dictionary iterator
\* raises when the dictionary changed size, ends the loop when it is
\* exhausted, else the checking and the reading handler take the device; O
\* are the outcomes of a wait for an acknowledge
RunDeviceOn(O) ==
    /\ pc = "devices"
    /\ IF Len(devices) # iter_size
       THEN /\ pc' = "dead"
            /\ Commit(Cur)
            /\ UNCHANGED <<processed_devices, todo>>
       ELSE IF todo = <<>>
       THEN /\ pc' = "transport"
            /\ Commit(Cur)
            /\ UNCHANGED <<processed_devices, todo>>
       ELSE LET i == Head(todo)
            IN  \E out \in IF checking_waits(Cur, i, now) THEN O ELSE {Timeout} :
                  \E c1 \in {checking_handle(Cur, i, out, now)} :
                  \E c2 \in {IF c1.raised THEN c1 ELSE reading_handle(c1, i, now)} :
                      /\ Commit(c2)
                      /\ pc' = IF c2.raised THEN "dead" ELSE "devices"
                      /\ processed_devices' = IF c2.raised THEN processed_devices
                                              ELSE processed_devices \cup {i}
                      /\ todo' = Tail(todo)
    /\ UNCHANGED <<stopped, packets_to_be_sent, iter_size, now>>
    /\ UNCHANGED <<queue, producers, registers, transform>>

\* the same with frames of F on the link: the wait runs out or the link's
\* loop delivers one of them
RunDevice(F) == RunDeviceOn(Outcomes(F))

\* the end of the while loop: transport.run() polls the link, which may
\* deliver one frame to receive(), and reports the packets still queued
RunTransport(F) ==
    /\ pc = "transport"
    /\ \E f \in Outcomes(F), queued \in {0, 1} :
         \E c \in {IF timed_out(f) THEN Cur ELSE receive(Cur, f, now)} :
             /\ Commit(c)
             /\ packets_to_be_sent' = IF c.raised THEN packets_to_be_sent ELSE queued
             /\ pc' = IF c.raised THEN "dead" ELSE IF stopped THEN "exit" ELSE "run"
    /\ UNCHANGED <<stopped, processed_devices, todo, iter_size, now>>
    /\ UNCHANGED <<queue, producers, registers, transform>>

\* FbBusConnector.publish, called on another thread for a property that is a
\* register of type register_type of device i
Publish(i, register_type, E, F) ==
    /\ i \in 1..Len(devices)
    /\ devices[i].registers[register_type] > 0
    /\ devices[i].attempts < MaxAttempts
    /\ \E out \in IF devices[i].state = "running" /\ register_type \in {"DO", "AO"}
                   THEN Outcomes(F) ELSE {Timeout} :
         \E expected \in E :
             Commit(publish(Cur, i, register_type, expected, out, now))
    /\ UNCHANGED <<stopped, packets_to_be_sent, processed_devices, pc, todo,
                   iter_size, now>>
    /\ UNCHANGED <<queue, producers, registers, transform>>

\* FbBusConnector.enable_searching -> PairingHelper.enable_pairing
EnableSearching ==
    /\ devices' = devices /\ hist' = hist /\ pairing_device' = pairing_device
    /\ attempts' = attempts
    /\ last_pairing_request_broadcast' = last_pairing_request_broadcast
    /\ pairing_enabled' = TRUE
    /\ sent' = <<>> /\ up' = <<>> /\ handled' = <<>>
    /\ broadcasts' = IF pairing_enabled THEN broadcasts ELSE 0
    /\ UNCHANGED <<stopped, packets_to_be_sent, processed_devices, pc, todo,
                   iter_size, now>>
    /\ UNCHANGED <<queue, producers, registers, transform>>

\* FbBusConnector.disable_searching -> PairingHelper.disable_pairing
DisableSearching ==
    /\ Commit([Cur EXCEPT !.pairing_enabled = FALSE])
    /\ UNCHANGED <<stopped, packets_to_be_sent, processed_devices, pc, todo,
                   iter_size, now>>
    /\ UNCHANGED <<queue, producers, registers, transform>>

RECURSIVE propagate_all(_, _)
propagate_all(c, k) ==
    IF k > Len(c.devices) THEN c
    ELSE propagate_all(propagate_device_state(c, k), k + 1)

\* FbBusConnector.close
Close ==
    /\ ~stopped
    /\ stopped' = TRUE
    /\ Commit(propagate_all(
           [Cur EXCEPT !.devices = [k \in 1..Len(devices) |->
                                       set_state(devices[k], "disconnected", now)]], 1))
    /\ UNCHANGED <<packets_to_be_sent, processed_devices, pc, todo, iter_size, now>>
    /\ UNCHANGED <<queue, producers, registers, transform>>

\* time passes
AdvanceTime(k, horizon) ==
    /\ now + k <= horizon
    /\ now' = now + k
    /\ Commit(Cur)
    /\ UNCHANGED <<stopped, packets_to_be_sent, processed_devices, pc, todo, iter_size>>
    /\ UNCHANGED <<queue, producers, registers, transform>>

\* ------------------------------------------------------- specifications
NoRegisters == [rt \in RegistersTypes |-> 0]

\* the largest clock value explored while pairing stays off
CheckingHorizon == StartTime + MaxCheckTime * PING_DELAY

\* pairing stays off: the checking, reading and writing handlers at work on
\* the loaded devices
InitChecking ==
    Opened({<<LoadedDevice("A", 1, [rt \in RegistersTypes |-> n])>> : n \in {0, MaxRegisters}},
           FALSE)

NextChecking ==
    \/ RunStart(CheckingFrames)
    \/ RunDevice(CheckingFrames)
    \/ RunTransport(CheckingFrames)
    \/ \E register_type \in RegistersTypes : Publish(1, register_type, {"toggle"}, CheckingFrames)
    \/ AdvanceTime(PING_DELAY, CheckingHorizon)

SpecChecking == InitChecking /\ [][NextChecking]_vars

\* a device that goes quiet and comes back: it answers nothing but a PING,
\* while frames of a sender that is not in the registry keep the link busy.
\* The loop thread keeps running, the transport's queue drains again and
\* again, and time passes.
RecoveryFrames == {Frame("pong", 1), Frame("pong", ADDRESS_NOT_ASSIGNED)}

NextRecovery ==
    \/ RunStart(RecoveryFrames)
    \/ RunDevice(RecoveryFrames)
    \/ RunTransport(RecoveryFrames)
    \/ AdvanceTime(PING_DELAY, CheckingHorizon)

FairRecovery ==
    /\ WF_vars(RunStart(RecoveryFrames))
    /\ WF_vars(RunDevice(RecoveryFrames))
    /\ SF_vars(RunTransport(RecoveryFrames) /\ packets_to_be_sent' = 0)
    /\ WF_vars(AdvanceTime(PING_DELAY, CheckingHorizon))

SpecRecovery == InitChecking /\ [][NextRecovery]_vars /\ FairRecovery

\* FbBusConnector.create_device called for one new serial number after
\* another, as the pairing helper does for the devices that report themselves
InitAllocation ==
    Opened({<<>>} \cup {<<LoadedDevice("A", a, NoRegisters)>> :
                            a \in {1, 2, MAX_ADDRESS, ADDRESS_NOT_ASSIGNED}}, FALSE)

CreateDevice ==
    /\ pc = "run"
    /\ LET c == create_device(Cur, ToString(Len(devices)))
       IN  /\ Commit(c)
           /\ pc' = IF c.raised THEN "dead" ELSE "run"
    /\ UNCHANGED <<stopped, packets_to_be_sent, processed_devices, todo, iter_size, now>>
    /\ UNCHANGED <<queue, producers, registers, transform>>

NextAllocation == CreateDevice

SpecAllocation == InitAllocation /\ [][NextAllocation]_vars

\* one pairing session, from enable_searching() until pairing is off again:
\* the loop runs its pairing branch, and the devices on the bus answer what
\* they are asked: a broadcast with their address, the latched device's
\* command with its response, or with a frame that is no answer.  A tick
\* takes a millisecond and no step of a session but the broadcast looks at
\* the clock, which stands still here.
PairingRegistries ==
    { <<>>,
      <<LoadedDevice("A", 1, NoRegisters)>>,
      <<LoadedDevice("A", ADDRESS_NOT_ASSIGNED, NoRegisters)>>,
      <<LoadedDevice("A", ADDRESS_NOT_ASSIGNED, NoRegisters),
        LoadedDevice("B", 2, NoRegisters)>> }

PairingFrames ==
    IF pairing_device = 0 THEN AddressReplies
    ELSE RepliesTo(devices[pairing_device].pairing_cmd, devices[pairing_device].address)
         \cup {Frame("pong", devices[pairing_device].address)}

InitPairing == Opened(PairingRegistries, TRUE)

NextPairing ==
    \/ pairing_enabled /\ RunStart(PairingFrames)
    \/ RunTransport(PairingFrames)

SpecPairing == InitPairing /\ [][NextPairing]_vars

\* searching on a bus where no device answers the broadcasts: the only frames
\* are ones that are no pairing response
SearchingFrames == {Frame("pong", a) : a \in BusAddresses}

InitSearching == Opened(PairingRegistries, FALSE)

NextSearching ==
    \/ EnableSearching
    \/ DisableSearching
    \/ Close
    \/ pairing_enabled /\ RunStart(SearchingFrames)
    \/ RunTransport(SearchingFrames)
    \/ AdvanceTime(SEARCHING_DELAY, StartTime + MaxSearchTime * SEARCHING_DELAY)

SpecSearching == InitSearching /\ [][NextSearching]_vars

\* a pairing session with a device that answers what it is asked: the reply
\* to a structure request names the type and the address of the request
HandshakeReplies(dv) ==
    LET a == dv.address
        response == response_of(dv.pairing_cmd)
    IN  CASE response = "address_accepted" ->
               {[PairFrame(response, a) EXCEPT !.serial_number = dv.serial_number]}
          [] response = "registers_structure" ->
               {[PairFrame(response, a) EXCEPT !.type = dv.reading_register.type,
                                               !.start = dv.reading_register.address,
                                               !.length = n] :
                    n \in 1..(dv.registers[dv.reading_register.type]
                                 - dv.reading_register.address)}
          [] response = "settings_structure" ->
               {[PairFrame(response, a) EXCEPT !.type = dv.reading_setting.type,
                                               !.start = dv.reading_setting.address,
                                               !.length = n,
                                               !.payload_length = 8 + MaxRegisters] :
                    n \in 1..(dv.settings[dv.reading_setting.type]
                                 - dv.reading_setting.address)}
          [] OTHER -> RepliesTo(dv.pairing_cmd, a)

HandshakeFrames ==
    IF pairing_device = 0 THEN AddressReplies
    ELSE HandshakeReplies(devices[pairing_device])

\* the request of this step was answered within its wait
Answered ==
    \E k \in 1..Len(sent') :
        /\ sent'[k].device # 0
        /\ hist'[sent'[k].device].unanswered = 0

NextHandshake ==
    \/ pairing_enabled /\ RunStart(HandshakeFrames)
    \/ RunTransport(HandshakeFrames)

\* the loop keeps running, and the device answers: of the requests that go
\* to it, one is answered in the end
FairHandshake ==
    /\ WF_vars(pairing_enabled /\ RunStart(HandshakeFrames))
    /\ WF_vars(RunTransport(HandshakeFrames))
    /\ SF_vars(pairing_enabled /\ RunStart(HandshakeFrames) /\ Answered)

\* searching is on, for a device that is new or known without an address
InitHandshake ==
    Opened({<<>>, <<LoadedDevice("A", ADDRESS_NOT_ASSIGNED, NoRegisters)>>}, TRUE)

SpecHandshake == InitHandshake /\ [][NextHandshake]_vars /\ FairHandshake

\* the calls of other threads at work beside the loop: publish(),
\* enable_searching(), disable_searching() and close(), with a device that
\* reports RUNNING and acknowledges writes
WritingFrames ==
    {[Frame("get_state", 1) EXCEPT !.byte = 1], Frame("write_single_register", 1)}

InitWriting ==
    Opened({<<LoadedDevice("A", 1, [rt \in RegistersTypes |-> MaxRegisters])>>}, FALSE)

NextWriting ==
    \/ RunStart(WritingFrames)
    \/ RunDevice(WritingFrames)
    \/ RunTransport(WritingFrames)
    \/ \E register_type \in RegistersTypes : Publish(1, register_type, {"toggle"}, WritingFrames)
    \/ EnableSearching
    \/ DisableSearching
    \/ Close

SpecWriting == InitWriting /\ [][NextWriting]_vars

\* pairing stays off with two devices in the registry: one reports RUNNING
\* and is read, the other answers with PONG only.  The loop thread keeps
\* running and the transport's queue drains again and again.
RoundRobinFrames == {[Frame("get_state", 1) EXCEPT !.byte = 1], Frame("pong", 2)}

InitRoundRobin ==
    Opened({<<LoadedDevice("A", 1, [rt \in RegistersTypes |-> MaxRegisters]),
              LoadedDevice("B", 2, NoRegisters)>>}, FALSE)

NextRoundRobin ==
    \/ RunStart(RoundRobinFrames)
    \/ RunDevice(RoundRobinFrames)
    \/ RunTransport(RoundRobinFrames)

FairRoundRobin ==
    /\ WF_vars(RunStart(RoundRobinFrames))
    /\ WF_vars(RunDevice(RoundRobinFrames))
    /\ SF_vars(RunTransport(RoundRobinFrames) /\ packets_to_be_sent' = 0)

SpecRoundRobin == InitRoundRobin /\ [][NextRoundRobin]_vars /\ FairRoundRobin


\* ---- the queue between the connectors and the consumer thread
\* Connectors.add_or_edit_*, delete_* and __publish_*_value_event: one call of
\* self.__queue.put(record). Queue.put is called with its defaults, block=True
\* and timeout=None: on a full queue the caller waits on not_full, and Full,
\* which the handler catches and logs, is raised for block=False only.
Put(p) ==
    /\ producers[p] = "idle"
    /\ IF queue < QUEUE_MAXSIZE
       THEN /\ queue' = queue + 1
            /\ UNCHANGED producers
       ELSE /\ producers' = [producers EXCEPT ![p] = "waiting"]
            /\ UNCHANGED queue
    /\ UNCHANGED <<devices, hist, pairing_device, pairing_enabled, attempts,
                   last_pairing_request_broadcast, stopped, packets_to_be_sent,
                   processed_devices, pc, todo, iter_size, now, sent, up,
                   handled, broadcasts, registers, transform>>

\* a caller waiting in Queue.put is woken when a slot is free, stores its
\* record and returns
PutWakes(p) ==
    /\ producers[p] = "waiting"
    /\ queue < QUEUE_MAXSIZE
    /\ queue' = queue + 1
    /\ producers' = [producers EXCEPT ![p] = "idle"]
    /\ UNCHANGED <<devices, hist, pairing_device, pairing_enabled, attempts,
                   last_pairing_request_broadcast, stopped, packets_to_be_sent,
                   processed_devices, pc, todo, iter_size, now, sent, up,
                   handled, broadcasts, registers, transform>>

\* one turn of the loop of Connectors.run that finds a record: the record is
\* taken off the queue (what is done with it is not recorded)
ConnectorsRun ==
    /\ producers[Consumer] = "idle"
    /\ queue > 0
    /\ queue' = queue - 1
    /\ UNCHANGED <<devices, hist, pairing_device, pairing_enabled, attempts,
                   last_pairing_request_broadcast, stopped, packets_to_be_sent,
                   processed_devices, pc, todo, iter_size, now, sent, up,
                   handled, broadcasts, producers, registers, transform>>

\* one turn of the loop of Connectors.run that finds an expected-value
\* record: the record is taken off the queue and
\* __process_property_expected_record calls publish() of the connector, which
\* sends the write and waits for its acknowledge
ProcessPropertyExpected ==
    /\ producers[Consumer] = "idle"
    /\ queue > 0
    /\ queue' = queue - 1
    /\ producers' = [producers EXCEPT ![Consumer] = "publishing"]
    /\ UNCHANGED <<devices, hist, pairing_device, pairing_enabled, attempts,
                   last_pairing_request_broadcast, stopped, packets_to_be_sent,
                   processed_devices, pc, todo, iter_size, now, sent, up,
                   handled, broadcasts, registers, transform>>

\* during the wait of publish() the link delivers a frame whose receiver
\* propagates the state of a device: add_or_edit_device calls Queue.put on
\* the thread of Connectors.run, which stores the record when there is a
\* slot and waits for one when there is none
PropagateWhilePublishing ==
    /\ producers[Consumer] \in {"publishing", "waiting"}
    /\ IF queue < QUEUE_MAXSIZE
       THEN /\ queue' = queue + 1
            /\ producers' = [producers EXCEPT ![Consumer] = "publishing"]
       ELSE /\ producers' = [producers EXCEPT ![Consumer] = "waiting"]
            /\ UNCHANGED queue
    /\ UNCHANGED <<devices, hist, pairing_device, pairing_enabled, attempts,
                   last_pairing_request_broadcast, stopped, packets_to_be_sent,
                   processed_devices, pc, todo, iter_size, now, sent, up,
                   handled, broadcasts, registers, transform>>

\* the wait of publish() ends and __process_property_expected_record returns
PublishReturns ==
    /\ producers[Consumer] = "publishing"
    /\ producers' = [producers EXCEPT ![Consumer] = "idle"]
    /\ UNCHANGED <<devices, hist, pairing_device, pairing_enabled, attempts,
                   last_pairing_request_broadcast, stopped, packets_to_be_sent,
                   processed_devices, pc, todo, iter_size, now, sent, up,
                   handled, broadcasts, queue, registers, transform>>

InitQueue ==
    Opened({<<>>}, FALSE)

NextQueue ==
    \/ \E p \in Producers : Put(p)
    \/ \E p \in Producers : PutWakes(p)
    \/ ConnectorsRun

SpecQueue == InitQueue /\ [][NextQueue]_vars

\* the same with expected-value records among those on the queue
NextConsumer ==
    \/ \E p \in Producers : Put(p)
    \/ \E p \in Producers : PutWakes(p)
    \/ ConnectorsRun
    \/ ProcessPropertyExpected
    \/ PropagateWhilePublishing
    \/ PublishReturns

SpecConsumer == InitQueue /\ [][NextConsumer]_vars


\* ---- toggling a digital output
\* the frames of a RUNNING device with a DO register: its state, the echo of
\* a write of either value, and a read response with the register's bit
ToggleFrames ==
    {[Frame("get_state", 1) EXCEPT !.byte = 1]}
    \cup {[Frame("write_single_register", 1) EXCEPT !.type = "DO", !.value = v] :
             v \in {0, ON}}
    \cup {[Frame("read_multiple_registers", 1) EXCEPT !.type = "DO", !.data = <<b>>] :
             b \in {0, 1}}

InitToggle ==
    Opened({<<LoadedDevice("A", 1, [rt \in RegistersTypes |->
                                      IF rt = "DO" THEN MaxRegisters ELSE 0])>>}, FALSE)

\* the loop, and publish(property_id, "toggle") for the DO register, called
\* by the consumer thread of the connectors queue
NextToggle ==
    \/ RunStart(ToggleFrames)
    \/ RunDevice(ToggleFrames)
    \/ RunTransport(ToggleFrames)
    \/ Publish(1, "DO", {"toggle"}, ToggleFrames)

SpecToggle == InitToggle /\ [][NextToggle]_vars


\* ---- frames no handler expects
\* frames a bus can carry while pairing is off: the state of the device at
\* address 1, a state frame of a wrong length, a frame of a sender that is
\* not in the registry, the answer of an unaddressed device that is not in
\* the registry to a search of another gateway, and a PAIR_DEVICE frame
\* whose response byte is none of PairingResponses
FaultFrames ==
    {[Frame("get_state", 1) EXCEPT !.byte = b] : b \in {1, 3}}
    \cup {[Frame("get_state", 1) EXCEPT !.length_ok = FALSE],
          Frame("pong", 2),
          [PairFrame("device_address", ADDRESS_NOT_ASSIGNED) EXCEPT
              !.address = ADDRESS_NOT_ASSIGNED, !.serial_number = "B"],
          PairFrame("unknown", 1)}

InitFaults ==
    Opened({<<LoadedDevice("A", 1, [rt \in RegistersTypes |-> n])>> :
               n \in {0, MaxRegisters}}, FALSE)

NextFaults ==
    \/ RunStart(FaultFrames)
    \/ RunDevice(FaultFrames)
    \/ RunTransport(FaultFrames)

SpecFaults == InitFaults /\ [][NextFaults]_vars


\* the frames from address a that a receiver drops as a protocol error: a
\* register frame whose type byte is none of RegistersTypes, and a state
\* frame whose length is not 3
ProtocolErrors(a) ==
    {[Frame(packet, a) EXCEPT !.type_ok = FALSE, !.value = v, !.data = <<1>>] :
        packet \in {"read_multiple_registers", "write_single_register",
                    "report_single_register"},
        v \in {0, ON}}
    \cup {[Frame(packet, a) EXCEPT !.length_ok = FALSE, !.byte = b] :
             packet \in {"get_state", "set_state", "report_state"}, b \in StateBytes}


\* ---- a device with small packets
\* the packet lengths such a device reports
SmallPackets == {8, 17, 20}

\* a pairing session with a device that answers what it is asked, supports
\* settings, and reports a small maximum packet length
SmallPacketFrames ==
    IF pairing_device = 0 THEN AddressReplies
    ELSE IF devices[pairing_device].pairing_cmd = "provide_about_info"
    THEN {[PairFrame("about_info", devices[pairing_device].address) EXCEPT
              !.max_packet_length = l, !.settings_support = TRUE] : l \in SmallPackets}
    ELSE HandshakeReplies(devices[pairing_device])

NextSmallPackets ==
    \/ pairing_enabled /\ RunStart(SmallPacketFrames)
    \/ RunTransport(SmallPacketFrames)

SpecSmallPackets == InitHandshake /\ [][NextSmallPackets]_vars


\* ---- reading after pairing
\* what the devices of the registry answer once pairing is off: their state
\* RUNNING, and a response to a read request
ReadReplies ==
    UNION {{[Frame("get_state", devices[i].address) EXCEPT !.byte = 1],
            Frame("read_multiple_registers", devices[i].address)} :
           i \in 1..Len(devices)}

\* a device is paired, and then read
FirstReadFrames ==
    IF pairing_enabled THEN HandshakeFrames ELSE ReadReplies

NextFirstRead ==
    \/ RunStart(FirstReadFrames)
    \/ RunDevice(FirstReadFrames)
    \/ RunTransport(FirstReadFrames)

SpecFirstRead == InitHandshake /\ [][NextFirstRead]_vars

\* ---------------------------------------------------------------- registers
\* the registers of one device are records of their type, address and data
\* type; st is the registry with the calls made on the gateway

\* FbBusConnector.get_registers_by_type
get_registers_by_type(st, register_type) ==
    {r \in st.registers : r.type = register_type}

\* what get_register_by_address returns when it finds no register
NoRegister == [type |-> None, address |-> 0, data_type |-> None]

\* FbBusConnector.get_register_by_address: a register of the type at the
\* address, or none
get_register_by_address(st, register_type, register_address) ==
    LET hits == {r \in get_registers_by_type(st, register_type) :
                    r.address = register_address}
    IN  IF hits = {} THEN NoRegister ELSE CHOOSE r \in hits : TRUE

\* FbBusConnector.create_register
create_register(st, register_address, register_type, register_data_type) ==
    [st EXCEPT !.registers = @ \cup {[type |-> register_type,
                                      address |-> register_address,
                                      data_type |-> register_data_type]}]

\* RegisterEntity.set_data_type followed by FbBusConnector.update_register
update_register(st, register, data_type) ==
    [st EXCEPT !.registers = (@ \ {register})
                                 \cup {[register EXCEPT !.data_type = data_type]}]

\* FbBusConnector.delete_register: the register leaves the registry and the
\* gateway is told
delete_register(st, deleted_register) ==
    [st EXCEPT !.registers = @ \ {deleted_register},
               !.up = Append(@, [call |-> "delete_channel_property",
                                 type |-> deleted_register.type,
                                 address |-> deleted_register.address])]

\* the data type __configure_registers gives the registers of a type
configured_data_type(registers_type) ==
    IF registers_type \in DigitalTypes THEN "BOOL" ELSE "UNKNOWN"

\* the first loop of __configure_registers, from address i on: a register
\* found at the address has its data type reset, a missing one is created
RECURSIVE configure_existing(_, _, _, _)
configure_existing(st, i, registers_size, registers_type) ==
    IF i >= registers_size THEN st
    ELSE LET register == get_register_by_address(st, registers_type, i)
         IN  configure_existing(
                 IF register # NoRegister
                 THEN update_register(st, register,
                                      configured_data_type(registers_type))
                 ELSE create_register(st, i, registers_type,
                                      configured_data_type(registers_type)),
                 i + 1, registers_size, registers_type)

\* the second loop of __configure_registers, over range(i, last): a register
\* found at the address is deleted
RECURSIVE delete_surplus(_, _, _, _)
delete_surplus(st, i, last, registers_type) ==
    IF i >= last THEN st
    ELSE LET register == get_register_by_address(st, registers_type, i)
         IN  delete_surplus(IF register # NoRegister THEN delete_register(st, register)
                            ELSE st,
                            i + 1, last, registers_type)

\* PairingHelper.__configure_registers
configure_registers(st, registers_size, registers_type) ==
    LET s1 == configure_existing(st, 0, registers_size, registers_type)
        count == Cardinality(get_registers_by_type(s1, registers_type))
    IN  IF registers_size < count
        THEN delete_surplus(s1, registers_size, count, registers_type)
        ELSE s1

\* the four calls of __configure_registers in __registers_size_receiver
configure_all_registers(st, sizes) ==
    configure_registers(
        configure_registers(
            configure_registers(
                configure_registers(st, sizes["DI"], "DI"),
                sizes["DO"], "DO"),
            sizes["AI"], "AI"),
        sizes["AO"], "AO")

\* the addresses of the registers of a type
Addresses(regs, register_type) ==
    {r.address : r \in {q \in regs : q.type = register_type}}

\* the registers __load_devices makes of the channel properties kept in the
\* storage: one for each property whose identifier ends in a number, at the
\* address one below it, digital when the property is boolean
LoadedRegisters ==
    {regs \in SUBSET [type : RegistersTypes, address : 0..MaxRegisters,
                      data_type : {"BOOL", "F32"}] :
        \A r \in regs : (r.data_type = "BOOL") <=> (r.type \in DigitalTypes)}

\* the connector of the device whose registers are looked at
system == <<devices, hist, pairing_device, pairing_enabled, attempts,
            last_pairing_request_broadcast, stopped, packets_to_be_sent,
            processed_devices, pc, todo, iter_size, now, sent, broadcasts,
            queue, producers>>

\* RESPONSE_REGISTERS_SIZE with the sizes is received: the registry after the
\* four calls, the calls made on the gateway, and the sizes the frame carried
RegistersSize(sizes) ==
    /\ \E st \in {configure_all_registers([registers |-> registers, up |-> <<>>],
                                          sizes)} :
          /\ registers' = st.registers
          /\ up' = st.up
    /\ handled' = <<[receiver |-> "registers_size", registers |-> sizes]>>
    /\ UNCHANGED <<system, transform>>

\* RESPONSE_REGISTERS_STRUCTURE for one register: a register found at the
\* address gets the data type
RegistersStructure(registers_type, address, data_type) ==
    /\ \E register \in {get_register_by_address([registers |-> registers],
                                                registers_type, address)} :
          /\ register # NoRegister
          /\ registers' = update_register([registers |-> registers], register,
                                          data_type).registers
    /\ up' = <<>>
    /\ handled' = <<[receiver |-> "registers_structure",
                     registers |-> [rt \in RegistersTypes |-> 0]]>>
    /\ UNCHANGED <<system, transform>>

InitRegisters ==
    /\ Connector({<<>>}, FALSE)
    /\ registers \in LoadedRegisters
    /\ transform = None

NextRegisters ==
    \/ \E sizes \in [RegistersTypes -> 0..MaxRegisters] : RegistersSize(sizes)
    \/ \E registers_type \in {"AI", "AO"}, address \in 0..MaxRegisters,
          data_type \in {"U8", "F32"} :
          RegistersStructure(registers_type, address, data_type)

SpecRegisters == InitRegisters /\ [][NextRegisters]_vars

\* ---------------------------------------------------------------- transform
\* the data types of DataTypes that a register's size is defined for
DataTypes == {"U8", "U16", "U32", "I8", "I16", "I32", "F32", "BOOL", "UNKNOWN"}

\* RegisterEntity.set_data_type: the register with the data type and the
\* size that goes with it
set_data_type(data_type) ==
    [data_type |-> data_type,
     size |-> CASE data_type \in {"U8", "I8"} -> 1
                [] data_type \in {"U16", "I16"} -> 2
                [] data_type \in {"U32", "I32", "F32"} -> 4
                [] data_type = "BOOL" -> 1
                [] data_type = "UNKNOWN" -> 0]

\* what the two functions of RegistersHelper return: no value, an integer, a
\* float, a block of bytes, or struct.error raised.  An integer of 32 bits is
\* kept as its high and low words of 16 bits (the integer is hi * 65536 + lo),
\* a float as the sign, exponent and fraction of its 32 bits.
NoValue == [kind |-> "none"]
Raised == [kind |-> "raised"]
Pending == [kind |-> "pending"]

\* the word of 16 bits of two bytes, low byte first
Word(low, high) == low + 256 * high

\* struct.unpack("<I", bytearray(write_value)): four bytes, low byte first
unpack_I(block) ==
    IF Len(block) # 4 THEN Raised
    ELSE [kind |-> "int", hi |-> Word(block[3], block[4]),
          lo |-> Word(block[1], block[2])]

\* struct.unpack("<i", bytearray(write_value)): the same in two's complement
unpack_i(block) ==
    IF Len(block) # 4 THEN Raised
    ELSE LET high == Word(block[3], block[4])
         IN  [kind |-> "int",
              hi |-> IF high >= 32768 THEN high - 65536 ELSE high,
              lo |-> Word(block[1], block[2])]

\* struct.unpack("<f", bytearray(write_value))
unpack_f(block) ==
    IF Len(block) # 4 THEN Raised
    ELSE [kind |-> "float", sign |-> block[4] \div 128,
          exponent |-> (block[4] % 128) * 2 + block[3] \div 128,
          fraction |-> (block[3] % 128) * 65536
                           + Word(block[1], block[2])]

\* the four bytes of two words, low byte first
Bytes(hi, lo) ==
    [kind |-> "bytes",
     bytes |-> <<lo % 256, lo \div 256, hi % 256, hi \div 256>>]

\* struct.pack("<I", write_value)
pack_I(number) ==
    IF number.kind # "int" \/ number.hi \notin 0..65535 THEN Raised
    ELSE Bytes(number.hi, number.lo)

\* struct.pack("<i", write_value)
pack_i(number) ==
    IF number.kind # "int" \/ number.hi \notin -32768..32767 THEN Raised
    ELSE Bytes(number.hi % 65536, number.lo)

\* struct.pack("<f", write_value), for a float of 32 bits
pack_f(number) ==
    IF number.kind # "float" THEN Raised
    ELSE [kind |-> "bytes",
          bytes |-> <<number.fraction % 256,
                      (number.fraction \div 256) % 256,
                      (number.exponent % 2) * 128
                          + number.fraction \div 65536,
                      number.sign * 128 + number.exponent \div 2>>]

\* RegistersHelper.transform_value_from_bytes
transform_value_from_bytes(register, block) ==
    IF register.data_type = "F32" THEN unpack_f(block)
    ELSE IF register.data_type \in {"U8", "U16", "U32"} THEN unpack_I(block)
    ELSE IF register.data_type \in {"I8", "I16", "I32"} THEN unpack_i(block)
    ELSE NoValue

\* RegistersHelper.transform_value_to_bytes
transform_value_to_bytes(register, number) ==
    IF register.data_type = "F32" THEN pack_f(number)
    ELSE IF register.data_type \in {"U8", "U16", "U32"} THEN pack_I(number)
    ELSE IF register.data_type \in {"I8", "I16", "I32"} THEN pack_i(number)
    ELSE NoValue

\* the bytes the blocks are made of
ByteSamples == {0, 1, 255}

\* the blocks of bytes read for a register: the four bytes the receivers cut
\* from a payload for each analog register, and blocks of the register's size
Blocks(register) ==
    UNION {[1..n -> ByteSamples] : n \in {register.size, 4}}

\* the block is decoded
TransformFromBytes ==
    /\ transform.transformed = Pending
    /\ transform' = [transform EXCEPT !.transformed =
                        transform_value_from_bytes(transform.register,
                                                   transform.block)]
    /\ UNCHANGED <<system, up, handled, registers>>

\* the decoded value is encoded
TransformToBytes ==
    /\ transform.transformed \notin {Pending, Raised}
    /\ transform.bytes = Pending
    /\ transform' = [transform EXCEPT !.bytes =
                        transform_value_to_bytes(transform.register,
                                                 transform.transformed)]
    /\ UNCHANGED <<system, up, handled, registers>>

InitTransform ==
    /\ Connector({<<>>}, FALSE)
    /\ registers = {}
    /\ \E data_type \in DataTypes :
          \E block \in Blocks(set_data_type(data_type)) :
             transform = [register |-> set_data_type(data_type),
                          block |-> block,
                          transformed |-> Pending, bytes |-> Pending]

NextTransform ==
    \/ TransformFromBytes
    \/ TransformToBytes

SpecTransform == InitTransform /\ [][NextTransform]_vars

\* ---- a device that answers every GET_STATE
\* the well-formed GET_STATE replies of the device at address 1
StateReplies == {[Frame("get_state", 1) EXCEPT !.byte = b] : b \in StateBytes}

\* a device without registers, so that GET_STATE and PING are the only
\* requests that go to it
InitAnswering ==
    Opened({<<LoadedDevice("A", 1, NoRegisters)>>}, FALSE)

\* every wait for an acknowledge of a request ends with a reply of the device
NextAnswering ==
    \/ RunStart(StateReplies)
    \/ RunDeviceOn(StateReplies)
    \/ RunTransport(StateReplies)
    \/ AdvanceTime(PING_DELAY, CheckingHorizon)

SpecAnswering == InitAnswering /\ [][NextAnswering]_vars

\* ---- the pages of the register structure
\* the most registers of a type the pages are read for
MaxPaged == 3

\* the packet lengths of the devices whose structure is read
StructurePackets == {6, 7}

\* the descriptor bytes a device sends: FB_DATA_TYPE_UINT8, FB_DATA_TYPE_FLOAT32
DescriptorBytes == {1, 7}

\* DataTypes(int(byte)): the data type a descriptor byte stands for, or none
\* when DataTypes.has_value(byte) is false
data_type_of(byte) ==
    CASE byte = 1 -> "U8" [] byte = 2 -> "U16" [] byte = 3 -> "U32"
      [] byte = 4 -> "I8" [] byte = 5 -> "I16" [] byte = 6 -> "I32"
      [] byte = 7 -> "F32" [] byte = 8 -> "BOOL"
      [] byte = 9 -> "TIME" [] byte = 10 -> "DATE" [] byte = 11 -> "DATETIME"
      [] byte = 255 -> "UNKNOWN"
      [] OTHER -> None

\* RegistersTypes(int(byte)), or none when RegistersTypes.has_value is false
registers_type_of(byte) ==
    CASE byte = 1 -> "DI" [] byte = 2 -> "DO" [] byte = 3 -> "AI"
      [] byte = 4 -> "AO" [] OTHER -> None

\* the byte of a registers type in a frame
registers_type_value(registers_type) ==
    CHOOSE byte \in 1..4 : registers_type_of(byte) = registers_type

\* the length field of the request that
\* PairingHelper.__send_provide_registers_structure_handler sends for the
\* cursor of the device, which has registers_size registers of the type
structure_read_length(dv, registers_size) ==
    LET start_address == dv.reading_register.address
        max_readable_count == dv.max_packet_length - 5
        max_readable_addresses == start_address + max_readable_count - 1
    IN  IF max_readable_addresses + 1 >= registers_size
        THEN IF start_address = 0 THEN registers_size
             ELSE registers_size - start_address
        ELSE max_readable_count

\* byte k of a payload in the source's counting, which starts at 0
payload_byte(payload, k) == payload[k + 1]

\* the loop of PairingHelper.__registers_structure_receiver, from address i
\* on: a register found at the address takes the data type of the byte at
\* byte_pointer when the byte stands for one.  payload[byte_pointer] with the
\* pointer at or after the end of the payload is an IndexError, which ends
\* the receiver; st.beyond records that the byte was asked for
RECURSIVE structure_loop(_, _, _, _, _)
structure_loop(st, registers_type, i, byte_pointer, payload) ==
    IF i >= Len(payload) THEN st
    ELSE LET register == get_register_by_address(st, registers_type, i)
         IN  IF register = NoRegister
             THEN structure_loop(st, registers_type, i + 1, byte_pointer + 1, payload)
             ELSE IF byte_pointer >= Len(payload)
             THEN [st EXCEPT !.beyond = TRUE, !.raised = TRUE]
             ELSE structure_loop(
                      IF data_type_of(payload_byte(payload, byte_pointer)) # None
                      THEN update_register(st, register,
                               data_type_of(payload_byte(payload, byte_pointer)))
                      ELSE st,
                      registers_type, i + 1, byte_pointer + 1, payload)

\* PairingHelper.__registers_structure_receiver for the device st.dv, whose
\* registers are st.registers; the payload is as long as payload_length says
structure_receiver(st, payload) ==
    IF registers_type_of(payload_byte(payload, 2)) = None THEN st
    ELSE
    LET registers_type == registers_type_of(payload_byte(payload, 2))
        start_address == payload_byte(payload, 3) * 256 + payload_byte(payload, 4)
        registers_length == payload_byte(payload, 5) * 256 + payload_byte(payload, 6)
        size == Cardinality(get_registers_by_type(st, registers_type))
    IN  IF size = 0 THEN st
        ELSE
        LET s1 == structure_loop(st, registers_type, start_address, 7, payload)
            dv == reset_communication(s1.dv)
        IN  IF s1.raised THEN s1
            ELSE IF size > start_address + registers_length
            THEN [s1 EXCEPT !.dv = [dv EXCEPT !.reading_register =
                                       [address |-> start_address + registers_length,
                                        type |-> registers_type]]]
            ELSE IF /\ registers_type = "AI"
                    /\ get_registers_by_type(s1, "AO") # {}
            THEN [s1 EXCEPT !.dv = [dv EXCEPT !.reading_register =
                                       [address |-> 0, type |-> "AO"]]]
            ELSE [s1 EXCEPT !.dv = [dv EXCEPT !.pairing_cmd = "provide_settings_size"]]

\* RESPONSE_REGISTERS_STRUCTURE for registers_length registers of the type
\* from start_address on: seven bytes of header, one descriptor byte for each
\* register, and the terminator
StructurePayload(registers_type, start_address, registers_length, descriptors) ==
    <<1, 90, registers_type_value(registers_type),
      start_address \div 256, start_address % 256,
      registers_length \div 256, registers_length % 256>>
    \o descriptors \o <<0>>

\* a step of PairingHelper.handle for a device whose register structure is
\* being read: the request for the page at the cursor goes out, and the
\* device answers it with the descriptors of the registers asked for
ProvideRegistersStructure ==
    /\ pc = "run"
    /\ \E dv \in {devices[1]} :
          /\ dv.pairing_cmd = "provide_registers_structure"
          /\ dv.reading_register.type \in {"AI", "AO"}
          /\ \E registers_length \in
                   {structure_read_length(dv,
                        Cardinality(get_registers_by_type(
                            [registers |-> registers], dv.reading_register.type)))} :
                /\ registers_length \in 0..MaxPaged
                /\ \E descriptors \in [1..registers_length -> DescriptorBytes] :
                   \E payload \in {StructurePayload(dv.reading_register.type,
                                                    dv.reading_register.address,
                                                    registers_length, descriptors)} :
                   \E st \in {structure_receiver(
                                  [registers |-> registers, dv |-> dv,
                                   beyond |-> FALSE, raised |-> FALSE], payload)} :
                      /\ registers' = st.registers
                      /\ devices' = <<st.dv>>
                      /\ pc' = IF st.raised THEN "dead" ELSE pc
                      /\ sent' = <<[device |-> 1, packet |-> "pair_device",
                                    cmd |-> "provide_registers_structure",
                                    type |-> dv.reading_register.type,
                                    start |-> dv.reading_register.address,
                                    length |-> registers_length]>>
                      /\ handled' = <<[receiver |-> "registers_structure",
                                       type |-> dv.reading_register.type,
                                       start |-> dv.reading_register.address,
                                       length |-> registers_length,
                                       payload |-> payload,
                                       beyond |-> st.beyond]>>
    /\ up' = <<>>
    /\ UNCHANGED <<hist, pairing_device, pairing_enabled, attempts,
                   last_pairing_request_broadcast, stopped, packets_to_be_sent,
                   processed_devices, todo, iter_size, now, broadcasts, queue,
                   producers, transform>>

\* a device that reported the sizes of its registers: the registers
\* __registers_size_receiver leaves, and its cursor on the analog inputs when
\* it has any, else on the analog outputs
InitStructure ==
    /\ \E sizes \in [{"AI", "AO"} -> 0..MaxPaged], l \in StructurePackets :
          /\ sizes["AI"] + sizes["AO"] > 0
          /\ registers = {r \in [type : {"AI", "AO"}, address : 0..MaxPaged,
                                 data_type : {"UNKNOWN"}] :
                             r.address < sizes[r.type]}
          /\ devices = <<[NewDevice("A", 1) EXCEPT
                            !.state = "init",
                            !.max_packet_length = l,
                            !.registers = [rt \in RegistersTypes |->
                                              IF rt \in DigitalTypes THEN 0
                                              ELSE sizes[rt]],
                            !.pairing_cmd = "provide_registers_structure",
                            !.reading_register =
                                [address |-> 0,
                                 type |-> IF sizes["AI"] > 0 THEN "AI" ELSE "AO"]]>>
    /\ hist = [i \in 1..Len(devices) |->
                  [unanswered |-> 0, last_frame |-> 0, asked |-> None,
                   cycle |-> <<>>]]
    /\ pairing_device = 1
    /\ pairing_enabled = TRUE
    /\ attempts = 0
    /\ last_pairing_request_broadcast = 0
    /\ stopped = FALSE
    /\ packets_to_be_sent = 0
    /\ processed_devices = {}
    /\ pc = "run"
    /\ todo = <<>>
    /\ iter_size = 0
    /\ now = StartTime
    /\ sent = <<>>
    /\ up = <<>>
    /\ handled = <<>>
    /\ broadcasts = 0
    /\ queue = 0
    /\ producers = [p \in Threads |-> "idle"]
    /\ transform = None

NextStructure == ProvideRegistersStructure

SpecStructure == InitStructure /\ [][NextStructure]_vars

\* ------------------------------------------------------------------ claims
\* the frames the last step sent to devices of the registry
Requests == {k \in 1..Len(sent) : sent[k].device # 0}

\* C1: at most one outstanding request per device.  A request frame goes to
\* a device whose expected-reply latch is still set only when a matching
\* reply was handled since the request that set it, or that request is at
\* least READING_DELAY old.  (When the attempt budget is exhausted the device
\* is LOST and its latch cleared before anything is sent.)
C1_OneOutstandingRequest ==
    \A k \in Requests :
        sent[k].latch # None => sent[k].replied \/ ~sent[k].recent

\* the checking handler takes the device at the head of the loop
CheckingRuns(i) ==
    /\ pc = "devices" /\ todo # <<>> /\ Head(todo) = i
    /\ Len(devices) = iter_size
    /\ todo' = Tail(todo)

\* C3: once MAX_TRANSMIT_ATTEMPTS requests have gone to a device with no
\* matching reply handled in between, the next run of the checking handler
\* on it leaves it LOST with a lost-since time.
C3_LostAfterMaxAttempts ==
    [][\A i \in 1..Len(devices) :
          CheckingRuns(i) /\ hist[i].unanswered = MAX_TRANSMIT_ATTEMPTS
              => /\ devices'[i].state = "lost"
                 /\ devices'[i].lost_timestamp # 0]_vars

\* the frames of one receiver that the last step handled
HandledBy(receiver) == {k \in 1..Len(handled) : handled[k].receiver = receiver}

\* C4: right after a PONG of a known device is handled the device is
\* UNKNOWN, its lost-since time is 0, its latch is clear, its attempt counter
\* is 0, and the state has gone upstream.
C4_PongRevivesDevice ==
    \A k \in HandledBy("pong") :
        LET i == handled[k].device
        IN  /\ devices[i].state = "unknown"
            /\ devices[i].lost_timestamp = 0
            /\ devices[i].waiting_for_packet = None
            /\ devices[i].attempts = 0
            /\ \E u \in 1..Len(up) :
                   up[u] = [call |-> "device_state", device |-> i, state |-> "unknown"]

\* a PONG of a device that was LOST has been handled
C4_Witness ==
    \E k \in HandledBy("pong") :
        /\ handled[k].before = "lost"
        /\ devices[handled[k].device].state = "unknown"

\* C2: no two devices of the registry share a bus address other than
\* ADDRESS_NOT_ASSIGNED, whatever pairing responses arrive.
C2_AddressesDistinct ==
    \A i, j \in 1..Len(devices) :
        i # j /\ devices[i].address = devices[j].address
            => devices[i].address = ADDRESS_NOT_ASSIGNED

\* the pairing branch of the loop runs with device i latched
PairingRuns(i) ==
    /\ pc = "run" /\ pairing_enabled /\ pairing_device = i
    /\ pc' # "run"

\* C8: when MAX_TRANSMIT_ATTEMPTS pairing requests have gone to the latched
\* device with no answer, the next run of the pairing branch makes it LOST,
\* clears the latch and turns pairing off.
C8_SilentDeviceEndsPairing ==
    [][\A i \in 1..Len(devices) :
          PairingRuns(i) /\ hist[i].unanswered = MAX_TRANSMIT_ATTEMPTS
              => /\ devices'[i].state = "lost"
                 /\ pairing_device' = 0
                 /\ ~pairing_enabled']_vars

C10_NewDeviceGetsAddress ==
    \A k \in HandledBy("device_address") :
        handled[k].before = None
            => /\ devices[handled[k].device].state = "connected"
               /\ devices[handled[k].device].pairing_cmd = "set_address"

\* the pairing branch of the loop runs with no device latched
SearchingRuns ==
    /\ pc = "run" /\ pairing_enabled /\ pairing_device = 0
    /\ pc' # "run"

\* C7: while searching is enabled, no device is latched and no device
\* answers, at most MAX_SEARCHING_ATTEMPTS PROVIDE_ADDRESS broadcasts go out;
\* the run of the pairing branch that follows the last of them turns
\* pairing off and sends nothing.
C7_SearchGivesUp ==
    /\ [](broadcasts <= MAX_SEARCHING_ATTEMPTS)
    /\ [][SearchingRuns /\ broadcasts = MAX_SEARCHING_ATTEMPTS
             => ~pairing_enabled' /\ sent' = <<>>]_vars

\* the search has given up after its last broadcast
C7_Witness ==
    /\ broadcasts = MAX_SEARCHING_ATTEMPTS
    /\ ~pairing_enabled /\ pc = "transport"
    /\ attempts = 0 /\ sent = <<>>

\* C5: with pairing off, a PING goes only to a LOST device, and not before
\* PING_DELAY has passed since it was lost and since the last frame sent to
\* it; a device that is LOST with that much time ahead is pinged (unless a
\* frame of its own changes its state first); and once its PONG is handled a
\* GET_STATE goes to it (unless a frame gives its state first).
C5_LostDeviceIsPinged ==
    /\ [](\A k \in Requests :
             sent[k].packet = "ping"
                 => sent[k].state = "lost" /\ sent[k].lost_for /\ sent[k].quiet_for)
    /\ \A i \in 1..1 :
          /\ (/\ devices[i].state = "lost"
              /\ devices[i].lost_timestamp + PING_DELAY <= CheckingHorizon
              /\ devices[i].last_packet_sent_timestamp + PING_DELAY <= CheckingHorizon)
                 ~> (\/ \E k \in Requests : sent[k].device = i /\ sent[k].packet = "ping"
                     \/ devices[i].state # "lost")
          /\ (\E k \in HandledBy("pong") : handled[k].device = i)
                 ~> (\/ \E k \in Requests :
                           sent[k].device = i /\ sent[k].packet = "get_state"
                     \/ devices[i].state # "unknown")

\* a PING has gone to a device PING_DELAY after it was lost
C5_Witness ==
    \E k \in Requests :
        /\ sent[k].packet = "ping" /\ sent[k].lost_for
        /\ devices[sent[k].device].waiting_for_packet = "pong"
        /\ now - devices[sent[k].device].lost_timestamp >= PING_DELAY

\* the addresses the devices of the registry hold
Held == {devices[i].address : i \in 1..Len(devices)}

\* C6: create_device gives the new device the lowest address of
\* 1..MAX_ADDRESS that no device holds, and fails only when every one of
\* these addresses is held.
C6_LowestFreeAddress ==
    /\ [](pc = "dead" => (1..MAX_ADDRESS) \subseteq Held)
    /\ [][Len(devices') = Len(devices) + 1
             => \A a \in (1..MAX_ADDRESS) \ Held :
                    devices'[Len(devices')].address <= a]_vars

\* C11: a RESPONSE_DEVICE_ADDRESS with a known serial number, whose device
\* holds an assigned address other than the assigned address the frame
\* reports, is rejected: the device keeps its address, its state and its
\* pairing command and is not latched; and a known device's address changes
\* only from ADDRESS_NOT_ASSIGNED.
C11_DuplicateSerialRejected ==
    /\ [][\A i \in 1..Len(devices) :
             /\ devices[i].address # ADDRESS_NOT_ASSIGNED
             /\ \E k \in 1..Len(handled') :
                    /\ handled'[k].receiver = "device_address"
                    /\ handled'[k].device = i
                    /\ handled'[k].address # ADDRESS_NOT_ASSIGNED
                    /\ handled'[k].address # devices[i].address
             => /\ devices'[i].address = devices[i].address
                /\ devices'[i].state = devices[i].state
                /\ devices'[i].pairing_cmd = devices[i].pairing_cmd
                /\ pairing_device' # i]_vars
    /\ [][\A i \in 1..Len(devices) :
             devices'[i].address # devices[i].address
                 => devices[i].address = ADDRESS_NOT_ASSIGNED]_vars

\* the order of the pairing commands
PairingOrder ==
    <<"set_address", "provide_about_info", "provide_device_model",
      "provide_device_manufacturer", "provide_device_version",
      "provide_firmware_manufacturer", "provide_firmware_version",
      "provide_registers_size", "provide_registers_structure",
      "provide_settings_size", "provide_settings_structure", "finished">>

Rank(cmd) == CHOOSE k \in 1..Len(PairingOrder) : PairingOrder[k] = cmd

\* the pairing command of device i changes
CursorMoves(i) ==
    /\ devices[i].pairing_cmd # None
    /\ devices'[i].pairing_cmd # devices[i].pairing_cmd

C13_SettingsOnlyWithSupport ==
    /\ [](\A k \in Requests :
             sent[k].cmd \in {"provide_settings_size", "provide_settings_structure"}
                 => devices[sent[k].device].settings_support)
    /\ [][\A i \in 1..Len(devices) :
             /\ CursorMoves(i)
             /\ devices[i].pairing_cmd \in {"provide_registers_size",
                                            "provide_registers_structure"}
             /\ ~devices'[i].settings_support
             => devices'[i].pairing_cmd \in {"provide_registers_structure", "finished"}]_vars

\* C14: while pairing is enabled every frame put on the bus is a PAIR_DEVICE
\* frame, whatever runs of the loop and publish() calls occur.
C14_PairingSilencesTraffic ==
    [][pairing_enabled
          => \A k \in 1..Len(sent') : sent'[k].packet = "pair_device"]_vars

\* C15: with pairing off and the transport's queue empty again and again,
\* every device of the registry is handled again and again; a device that
\* is handled is not in the visited set; and no device is handled while the
\* last reported queue length is not 0.
C15_RoundRobin ==
    /\ \A i \in 1..2 : []<><<CheckingRuns(i)>>_vars
    /\ [][\A i \in 1..Len(devices) :
             CheckingRuns(i) => i \notin processed_devices /\ packets_to_be_sent = 0]_vars

\* a second pass over the registry has handled both devices
C15_Witness ==
    /\ pc = "devices" /\ todo = <<>> /\ processed_devices = {1, 2}
    /\ devices[2].attempts >= 2

\* a step of the loop thread
LoopStep == pc' # pc \/ todo' # todo

\* C16: while the loop is inside a tick, the registry is written and frames
\* are sent by the loop's own steps only: publish() and close(), called on
\* other threads, do neither.
C16_OnlyLoopWritesRegistry ==
    [][/\ pc \in {"devices", "transport"}
       /\ devices' # devices \/ sent' # <<>>
       => LoopStep]_vars

\* C17: once close() has been called, no step changes the state of a device
\* or propagates a state other than DISCONNECTED, and when the loop has
\* exited every device is DISCONNECTED.
C17_RepliesDroppedAfterClose ==
    /\ [](pc = "exit" => \A i \in 1..Len(devices) : devices[i].state = "disconnected")
    /\ [][stopped =>
             /\ \A i \in 1..Len(devices) : devices'[i].state = devices[i].state
             /\ \A u \in 1..Len(up') : up'[u].state = "disconnected"]_vars

\* C18: a record handed over while the queue holds QUEUE_MAXSIZE records is
\* discarded and its producer returns at once: no producer ever waits for a
\* slot, and the queue never holds more than QUEUE_MAXSIZE records
C18_OverflowDiscarded ==
    /\ queue <= QUEUE_MAXSIZE
    /\ \A p \in Producers : producers[p] = "idle"

\* C19: send_packet never reports failure: when a handler sends one request
\* with a wait and no frame arrives within the window, the handler goes on
\* as after a success, the device still latched on the reply to the request
\* and its attempt counted (reset_communication, the handlers' answer to a
\* result of False, is not run)
C19_SendNeverFails ==
    [][(/\ Len(sent') = 1
        /\ sent'[1].device # 0
        /\ sent'[1].packet \in {"get_state", "write_single_register", "pair_device"}
        /\ handled' = <<>>
        /\ up' = <<>>)
       => /\ devices'[sent'[1].device].waiting_for_packet = sent'[1].packet
          /\ devices'[sent'[1].device].attempts > 0]_vars

\* C20: a publish() for a DI or AI register, or for a register of a device
\* that is not RUNNING, is dropped without effect: whatever state the
\* connector is in, the call sends no frame, reports nothing upstream and
\* leaves the device, with its latch, attempt counter and last-send
\* timestamp, and the rest of the registry as they were
C20_DroppedPublishHasNoEffect ==
    \A i \in 1..Len(devices), register_type \in RegistersTypes,
       expected \in Expected, out \in Outcomes(WritingFrames) :
        (/\ devices[i].registers[register_type] > 0
         /\ \/ register_type \in {"DI", "AI"}
            \/ devices[i].state # "running")
        => \E c \in {publish(Cur, i, register_type, expected, out, now)} :
              /\ c.sent = <<>>
              /\ c.up = <<>>
              /\ c.devices[i].waiting_for_packet = devices[i].waiting_for_packet
              /\ c.devices[i].attempts = devices[i].attempts
              /\ c.devices[i].last_packet_sent_timestamp
                    = devices[i].last_packet_sent_timestamp
              /\ c.devices = devices

\* publish() can be called for an input register of a RUNNING device that is
\* latched on a reply with an attempt counted
C20_Witness ==
    /\ Len(devices) = 1
    /\ devices[1].registers["DI"] > 0
    /\ devices[1].state = "running"
    /\ devices[1].waiting_for_packet # None
    /\ devices[1].attempts > 0
    /\ devices[1].attempts < MaxAttempts

\* C21: two publish(property_id, "toggle") calls for a DO register of a
\* RUNNING device send WRITE_SINGLE_REGISTER frames of opposite values,
\* whether or not an echo of the first was handled before the second
C21_ToggleTwiceRestores ==
    [][\A k \in 1..Len(sent), m \in 1..Len(sent') :
          (/\ sent[k].packet = "write_single_register"
           /\ sent'[m].packet = "write_single_register")
          => sent'[m].value # sent[k].value]_vars

\* C22: the connector loop never raises out of a tick: whatever frame
\* arrives and whatever goes wrong inside a handler, the loop thread does
\* not die
C22_LoopNeverRaises ==
    pc # "dead"

\* C23: a frame dropped as a protocol error leaves everything as it was:
\* whatever state the connector is in, handling such a frame from a device
\* of the registry changes no device (its latch, attempt counter, state and
\* register values included) nor what is recorded about its pending
\* request, and nothing is sent or reported upstream
C23_ProtocolErrorKeepsLatch ==
    \A i \in 1..Len(devices) :
        \A f \in ProtocolErrors(devices[i].address) :
            \E c \in {receive(Cur, f, now)} :
                /\ ~c.raised
                /\ c.devices = devices
                /\ c.hist = hist
                /\ c.sent = <<>>
                /\ c.up = <<>>

\* a RUNNING device whose DO register holds a value waits for the echo of a
\* write, with the attempt counted
C23_Witness ==
    /\ Len(devices) = 1
    /\ devices[1].state = "running"
    /\ devices[1].values["DO"] = <<True>>
    /\ devices[1].waiting_for_packet = "write_single_register"
    /\ devices[1].attempts > 0
    /\ hist[1].unanswered > 0

\* C24: every change of a device's state to LOST, in the checking handler or
\* in the pairing helper, is propagated upstream in the step that makes it:
\* propagate_device_state is called for the device with state LOST
C24_LostIsPropagated ==
    [][\A i \in 1..Len(devices) :
          (devices[i].state # "lost" /\ devices'[i].state = "lost")
          => \E k \in 1..Len(up') :
                /\ up'[k].call = "device_state"
                /\ up'[k].device = i
                /\ up'[k].state = "lost"]_vars

\* C26: every PROVIDE_SETTINGS_STRUCTURE request asks for at least one
\* setting, however small the packets of the device are
C26_SettingsRequestAsksForOne ==
    [][\A k \in 1..Len(sent') :
          sent'[k].cmd = "provide_settings_structure" => sent'[k].length >= 1]_vars

\* C27: a tick of the loop with pairing off and nothing pending runs the
\* checking and reading handlers for one device only: once they have run
\* for a device, no device is left for them in this tick
C27_OneDevicePerTick ==
    [][\A i \in 1..Len(devices) : CheckingRuns(i) => todo' = <<>>]_vars

\* the order in which a read cycle visits the register types
ReadOrder == <<"DI", "DO", "AI", "AO">>

ReadRank(register_type) ==
    CHOOSE k \in 1..4 : ReadOrder[k] = register_type

\* the requests of a cycle go through the types in ReadOrder, each asks for
\* at least one register and at most as many as a packet of the device
\* holds, and those for one type start at address 0, follow one another
\* without a gap or an overlap and end with the last register of the type
CoversOnce(dv, cycle) ==
    /\ \A k \in 1..Len(cycle) :
          /\ cycle[k].length >= 1
          /\ cycle[k].length <= max_readable_registers_count(dv, cycle[k].type)
          /\ k < Len(cycle) =>
                \/ ReadRank(cycle[k].type) < ReadRank(cycle[k + 1].type)
                \/ /\ cycle[k].type = cycle[k + 1].type
                   /\ cycle[k + 1].start = cycle[k].start + cycle[k].length
    /\ \A register_type \in RegistersTypes :
          LET ks == {k \in 1..Len(cycle) : cycle[k].type = register_type}
          IN  IF dv.registers[register_type] = 0 THEN ks = {}
              ELSE /\ ks # {}
                   /\ \E k \in ks : cycle[k].start = 0
                   /\ \E k \in ks : cycle[k].start + cycle[k].length
                                        = dv.registers[register_type]

\* C28: a read cycle of a RUNNING device that ends, with the cursor reset and
\* the read time stamped, has asked for every register of the device once,
\* in the order DI, DO, AI, AO and in chunks that fit a packet; so has the
\* first cycle after the device was paired
C28_ReadCycleCoversAll ==
    [][\A i \in 1..Len(devices) :
          (/\ devices[i].state = "running"
           /\ devices'[i].reading_registers_timestamp
                 # devices[i].reading_registers_timestamp
           /\ devices'[i].reading_register = NoCursor
           /\ \E k \in 1..Len(sent') : sent'[k].packet = "read_multiple_registers")
          => CoversOnce(devices[i], hist'[i].cycle)]_vars

\* C29: the reading cursor of a device moves on only when a
\* READ_MULTIPLE_REGISTERS response of the device is handled: a step of the
\* reading handler that sends a request leaves the cursor where it was
C29_CursorMovesOnResponse ==
    [][\A k \in 1..Len(sent') :
          sent'[k].packet = "read_multiple_registers"
          => devices'[sent'[k].device].reading_register
               = devices[sent'[k].device].reading_register]_vars

\* C30: after RESPONSE_REGISTERS_SIZE is processed the device has, for each
\* register type, registers at exactly the addresses 0..n-1 for the reported
\* number n, whatever registers it had before, and each register that is
\* gone has been announced with delete_channel_property.
C30_RegistersMatchReportedSizes ==
    [][(handled' # <<>> /\ handled'[1].receiver = "registers_size")
       => /\ \A rt \in RegistersTypes :
                /\ Addresses(registers', rt) = 0..(handled'[1].registers[rt] - 1)
                /\ Cardinality({r \in registers' : r.type = rt})
                     = handled'[1].registers[rt]
          /\ \A r \in registers :
                r.address \notin Addresses(registers', r.type)
                => \E k \in 1..Len(up') :
                      /\ up'[k].call = "delete_channel_property"
                      /\ up'[k].type = r.type
                      /\ up'[k].address = r.address]_vars

\* C25: for a register of any data type but UNKNOWN, the encoded decoded
\* value of a block of bytes is the block again and has as many bytes as the
\* size of the data type; for UNKNOWN both decoding and encoding give no
\* value.
C25_EncodeDecodeRoundTrip ==
    transform.bytes # Pending
    => IF transform.register.data_type = "UNKNOWN"
       THEN transform.transformed = NoValue /\ transform.bytes = NoValue
       ELSE /\ transform.bytes.kind = "bytes"
            /\ transform.bytes.bytes = transform.block
            /\ Len(transform.bytes.bytes) = transform.register.size

\* the RESPONSE_ABOUT_INFO frames of the device at an address
AboutInfoFrames(address) ==
    {[PairFrame("about_info", address) EXCEPT
         !.max_packet_length = l, !.description_support = d,
         !.settings_support = s] :
         l \in {8, 8 + 4 * MaxRegisters}, d \in BOOLEAN, s \in BOOLEAN}

\* C33 as stated: processing RESPONSE_ABOUT_INFO leaves the settings_support
\* flag of the device at the value it had before the reply.
C33_AboutInfoKeepsSettingsSupport ==
    \A i \in 1..Len(devices) :
        \A f \in AboutInfoFrames(devices[i].address) :
            get_device_by_address(Cur, f.sender) = i
            => pairing_receive(Cur, f).devices[i].settings_support
                   = devices[i].settings_support

\* C33, amended: processing RESPONSE_ABOUT_INFO of a device of the registry
\* stores the settings support flag the frame reports, whatever the
\* flag was before (DeviceEntity.get_settings_support assigns it).
C33_AboutInfoStoresSettingsSupport ==
    \A i \in 1..Len(devices) :
        \A f \in AboutInfoFrames(devices[i].address) :
            get_device_by_address(Cur, f.sender) = i
            => pairing_receive(Cur, f).devices[i].settings_support
                   = f.settings_support

\* the latched device has answered PROVIDE_ABOUT_INFO with settings support
\* and the flag, false for a device just created, is set
C33_Witness ==
    /\ pairing_device # 0
    /\ devices[pairing_device].settings_support
    /\ devices[pairing_device].pairing_cmd = "provide_registers_size"
    /\ handled = <<>> /\ sent = <<>>

\* the PAIR_DEVICE frames a bus can carry: the answers to the pairing
\* commands from the addresses of the bus and from an unaddressed device
PairDeviceFrames ==
    AddressReplies
    \cup {[PairFrame("device_address", ADDRESS_NOT_ASSIGNED) EXCEPT
              !.address = ADDRESS_NOT_ASSIGNED, !.serial_number = sn] :
             sn \in Serials}
    \cup UNION {RepliesTo(cmd, a) :
                   cmd \in SimplePairingCommands \cup {"set_address"},
                   a \in BusAddresses}

\* C34: while pairing is disabled an inbound PAIR_DEVICE frame changes
\* nothing: no device is created, no device's address, state or pairing
\* cursor changes, and no device is latched for pairing.
C34_PairFrameIgnoredWhileDisabled ==
    ~pairing_enabled
    => \A f \in PairDeviceFrames :
          \E c \in {receive(Cur, f, now)} :
             /\ Len(c.devices) = Len(devices)
             /\ c.pairing_device = pairing_device
             /\ \A i \in 1..Len(devices) :
                   /\ c.devices[i].address = devices[i].address
                   /\ c.devices[i].state = devices[i].state
                   /\ c.devices[i].pairing_cmd = devices[i].pairing_cmd

\* C35: a device that answers every GET_STATE request with a well-formed
\* GET_STATE reply is never moved to LOST by the checking handler, whichever
\* state byte it reports.
C35_AnsweringDeviceNeverLost ==
    \A i \in 1..Len(devices) : devices[i].state # "lost"

\* the reply frames of the device at address a: every frame but the REPORT_*
\* frames, which a device sends on its own
ReplyFrames(a) ==
    {f \in DeviceFrames(a) \cup {g \in PairDeviceFrames : g.sender = a} :
        f.packet \in {"pong", "get_state", "read_multiple_registers",
                      "write_single_register", "pair_device"}}

\* C36: a reply frame of a device whose expected-reply latch does not name
\* the frame's packet is ignored: the device keeps its state, latch, attempt
\* counter and register values.
C36_UnexpectedReplyIgnored ==
    \A i \in 1..Len(devices) :
        \A f \in ReplyFrames(devices[i].address) :
            (get_device_by_address(Cur, f.sender) = i
                /\ devices[i].waiting_for_packet # f.packet)
            => \E c \in {receive(Cur, f, now)} :
                  /\ c.devices[i].state = devices[i].state
                  /\ c.devices[i].waiting_for_packet = devices[i].waiting_for_packet
                  /\ c.devices[i].attempts = devices[i].attempts
                  /\ c.devices[i].values = devices[i].values

\* C37: a device leaves LOST only through a handled PONG, to UNKNOWN, or
\* through close(), to DISCONNECTED; and its lost-since time is non-zero
\* exactly while its state is LOST.
C37_LostLeftOnlyByPongOrClose ==
    /\ [](\A i \in 1..Len(devices) :
             (devices[i].lost_timestamp # 0) <=> (devices[i].state = "lost"))
    /\ [][\A i \in 1..Len(devices) :
             (devices[i].state = "lost" /\ devices'[i].state # "lost")
             => \/ /\ devices'[i].state = "unknown"
                   /\ \E k \in 1..Len(handled') :
                         /\ handled'[k].receiver = "pong"
                         /\ handled'[k].device = i
                \/ /\ devices'[i].state = "disconnected"
                   /\ ~stopped /\ stopped']_vars

\* C38: READ_MULTIPLE_REGISTERS and WRITE_SINGLE_REGISTER go only to a device
\* that is RUNNING when the frame is sent, and PING only to a device that is
\* LOST, whatever runs of the loop, publish() calls and inbound frames occur.
C38_RequestsMatchState ==
    \A k \in Requests :
        /\ sent[k].packet \in {"read_multiple_registers", "write_single_register"}
           => sent[k].state = "running"
        /\ sent[k].packet = "ping" => sent[k].state = "lost"

\* a PING has gone to a device that registers were read from before it was
\* lost
C38_Witness ==
    \E k \in Requests :
        /\ sent[k].packet = "ping"
        /\ sent[k].state = "lost"
        /\ hist[sent[k].device].cycle # <<>>

\* C39: every enable_searching() starts a fresh session: when no device
\* replies, pairing turns itself off only after MAX_SEARCHING_ATTEMPTS
\* broadcasts of that session, and no device is the pairing subject when the
\* session starts.
C39_EnableStartsFreshSession ==
    /\ [][(SearchingRuns /\ ~pairing_enabled')
             => broadcasts = MAX_SEARCHING_ATTEMPTS]_vars
    /\ [][(~pairing_enabled /\ pairing_enabled') => pairing_device' = 0]_vars

\* C40: the thread that takes the records off the connectors queue never
\* waits in a put on that queue, so a full queue cannot stop it while it
\* handles an expected-value record.
C40_ConsumerNeverWaitsInPut ==
    producers[Consumer] # "waiting"

\* the bytes one setting descriptor takes in a PROVIDE_SETTINGS_STRUCTURE
\* response
descriptor_size(setting_type) == IF setting_type = "DEVICE" THEN 12 ELSE 15

\* C32: a PROVIDE_SETTINGS_STRUCTURE request never asks for more setting
\* descriptors than fit whole into a packet of the device, that is more than
\* (max_packet_length - 5) divided by the descriptor size and rounded down
C32_SettingsRequestFitsPacket ==
    [][\A k \in 1..Len(sent') :
          sent'[k].cmd = "provide_settings_structure"
             => \E dv \in {devices[sent'[k].device]} :
                   sent'[k].length
                      <= (dv.max_packet_length - 5)
                            \div descriptor_size(dv.reading_setting.type)]_vars

\* the registers of a type in a set of registers
RegistersOf(regs, registers_type) == {r \in regs : r.type = registers_type}

\* C31: the register structure is read in pages.  A request asks for at
\* least one and at most max_packet_length - 5 registers from the cursor on
\* and for none past the last one; when the answer for the addresses from
\* start to start + length - 1 has been processed, every register in the
\* range has the data type of its descriptor byte, every other register is
\* as it was, no byte past the end of the frame was asked for, and the
\* cursor stands at start + length while registers of the type remain
C31_StructurePagedCorrectly ==
    [][\A k \in 1..Len(handled') :
          handled'[k].receiver = "registers_structure"
             => \E f \in {handled'[k]}, dv \in {devices[1]} :
                   /\ sent'[k].start = dv.reading_register.address
                   /\ sent'[k].length >= 1
                   /\ sent'[k].length <= dv.max_packet_length - 5
                   /\ sent'[k].start + sent'[k].length
                         <= Cardinality(RegistersOf(registers, f.type))
                   /\ ~f.beyond
                   /\ \A r \in registers :
                         IF r.type = f.type
                            /\ r.address \in f.start..(f.start + f.length - 1)
                         THEN [r EXCEPT !.data_type =
                                  data_type_of(payload_byte(f.payload,
                                                   7 + r.address - f.start))]
                                 \in registers'
                         ELSE r \in registers'
                   /\ Cardinality(registers') = Cardinality(registers)
                   /\ Cardinality(RegistersOf(registers, f.type)) > f.start + f.length
                         => devices'[1].reading_register
                               = [address |-> f.start + f.length, type |-> f.type]]_vars

====
